---- MODULE Spec2Model ----
(***************************************************************************)
(* Storage-engine core of bustub-lab: the extendible hash table used as    *)
(* page table, the LRU-K replacer, the buffer pool manager and the B+tree  *)
(* index built on the buffer pool.                                         *)
(*                                                                         *)
(* Objects are records and every method is an operator from the object's   *)
(* state (and arguments) to the object's new state and the return value.   *)
(* A Page* / node pointer is the index of the frame it points into.        *)
(***************************************************************************)
EXTENDS Integers, Sequences, FiniteSets, TLC

VARIABLES
    bpm,        \* the BufferPoolManagerInstance (frames, page table, replacer, free list, disk)
    tree,       \* the BPlusTree object: root_page_id_, leaf_max_size_, internal_max_size_
    last,       \* the last public call made by the harness, with its arguments and result
    model,      \* ghost: the key -> value map the calls so far should have produced
    iter,       \* the IndexIterator object the caller holds, if any
    replacer,   \* an LRUKReplacer used on its own
    table,      \* an ExtendibleHashTable<int, int> used on its own
    threads     \* the threads calling the buffer pool: where each is, and who holds each latch

vars == <<bpm, tree, last, model, iter, replacer, table, threads>>

(***************************************************************************)
(* Bounds of the model                                                     *)
(***************************************************************************)
\* frames of the pool in the buffer pool specification
MaxPool == 2
\* accesses recorded by the replacer in the buffer pool specification
MaxTime == 2
\* bucket_size_ handed to the page table, K handed to the replacer
BucketSize == 2
ReplacerK == 2
\* frames of the pool the tree runs on
TreePoolSize == 12
\* frames of the pool the scenario runs on
ScenarioPoolSize == 64
\* tree sizes: leaf_max_size in 3..MaxLeafSize, internal_max_size in 3..MaxInternalSize
MaxLeafSize == 4
MaxInternalSize == 4
\* keys 1..MaxKey
MaxKey == 5
\* calls in an insert-only behaviour, and in a behaviour with removes
MaxInsOps == 5
MaxOps == 7
\* levels the views of the tree walk down
MaxDepth == 6
\* frames of the pools on which an insert can run out of frames: 2..MaxSmallPool
MaxSmallPool == 4
\* inserts and removes that build the tree an iterator then walks
MaxIterOps == 5
\* the replacer on its own: largest num_frames and number of accesses recorded
MaxFrames == 2
MaxAccess == 4
\* the hash table on its own: largest key, number of inserts and removes
MaxHashKey == 4
MaxHashOps == 4
\* behaviours that redistribute: leaf_max_size 6..MaxBorrowLeaf, keys 1..MaxBorrowKey, and
\* the number of removes
MaxBorrowLeaf == 6
MaxBorrowKey == 9
MaxBorrowRemoves == 2
\* Insert of the hash table round by round: keys 0..MaxLoopKey and the number of calls
MaxLoopKey == 8
MaxLoopCalls == 3

(***************************************************************************)
(* Program constants                                                       *)
(***************************************************************************)
INVALID_PAGE_ID == -1
HEADER_PAGE_ID == 0
\* std::numeric_limits<size_t>::max(), larger than every timestamp of the model
SIZE_MAX == 2147483647
\* IndexPageType
INVALID_INDEX_PAGE == 0
LEAF_PAGE == 1
INTERNAL_PAGE == 2
\* a null Page* / null node pointer
NULL == -1

(***************************************************************************)
(* Small helpers on finite maps                                            *)
(***************************************************************************)
EmptyMap == [x \in {} |-> 0]

MapPut(f, k, v) == [x \in (DOMAIN f) \cup {k} |-> IF x = k THEN v ELSE f[x]]

MapDel(f, k) == [x \in (DOMAIN f) \ {k} |-> f[x]]

Pow2(n) == 2 ^ n

\* the value of an expression computed once: The({e(x) : x \in {v}}) is e(v)
The(S) == CHOOSE v \in S : TRUE

(***************************************************************************)
(* Page: the bytes of a frame.  A page image is the B+tree page header     *)
(* followed by the entry array; Page::ResetMemory zeroes all of it.        *)
(***************************************************************************)
ZeroPage ==
    [page_type_ |-> INVALID_INDEX_PAGE, size_ |-> 0, max_size_ |-> 0,
     parent_page_id_ |-> 0, page_id_ |-> 0, next_page_id_ |-> 0, array_ |-> <<>>]

\* a frame after construction of the pool (Page::Page resets memory, id INVALID)
FreshFrame ==
    [page_id_ |-> INVALID_PAGE_ID, pin_count_ |-> 0, is_dirty_ |-> FALSE, data_ |-> ZeroPage]

(***************************************************************************)
(* ExtendibleHashTable<page_id_t, frame_id_t>                              *)
(* dir_ holds bucket identities (indices into buckets); slot i of the C++  *)
(* vector is dir_[i + 1].                                                  *)
(***************************************************************************)
\* std::hash<int> is the identity; a negative int converts to size_t modulo 2^64,
\* and only its low global_depth_ bits are ever used
Hash(key) == key

HT_New(bucket_size) ==
    [global_depth_ |-> 0, bucket_size_ |-> bucket_size, num_buckets_ |-> 1,
     dir_ |-> <<1>>, buckets |-> <<[depth_ |-> 0, list_ |-> <<>>]>>]

IndexOf(ht, key) == Hash(key) % Pow2(ht.global_depth_)

\* position of key in a bucket's list, 0 when absent
RECURSIVE ListPos(_, _, _)
ListPos(list, key, i) ==
    IF i > Len(list) THEN 0
    ELSE IF list[i][1] = key THEN i
    ELSE ListPos(list, key, i + 1)

Bucket_Find(bucket, key) ==
    The({IF p = 0 THEN [found |-> FALSE, value |-> NULL]
         ELSE [found |-> TRUE, value |-> bucket.list_[p][2]]
         : p \in {ListPos(bucket.list_, key, 1)}})

Bucket_Remove(bucket, key) ==
    The({IF p = 0 THEN [bucket |-> bucket, ret |-> FALSE]
         ELSE [bucket |-> [bucket EXCEPT !.list_ =
                              SubSeq(@, 1, p - 1) \o SubSeq(@, p + 1, Len(@))],
               ret |-> TRUE]
         : p \in {ListPos(bucket.list_, key, 1)}})

\* Bucket::Insert that keeps the value of a key it already holds
Bucket_Insert_Keep(bucket, size, key, value) ==
    The({IF p # 0 THEN [bucket |-> bucket, ret |-> TRUE]
         ELSE IF Len(bucket.list_) >= size THEN [bucket |-> bucket, ret |-> FALSE]
         ELSE [bucket |-> [bucket EXCEPT !.list_ = Append(@, <<key, value>>)], ret |-> TRUE]
         : p \in {ListPos(bucket.list_, key, 1)}})

Bucket_Insert(bucket, size, key, value) ==
    The({IF p # 0 THEN [bucket |-> [bucket EXCEPT !.list_[p] = <<key, value>>], ret |-> TRUE]
         ELSE IF Len(bucket.list_) >= size THEN [bucket |-> bucket, ret |-> FALSE]
         ELSE [bucket |-> [bucket EXCEPT !.list_ = Append(@, <<key, value>>)], ret |-> TRUE]
         : p \in {ListPos(bucket.list_, key, 1)}})

HT_Find(ht, key) ==
    The({Bucket_Find(bucket, key) : bucket \in {ht.buckets[ht.dir_[IndexOf(ht, key) + 1]]}})

HT_Remove(ht, key) ==
    LET bid == ht.dir_[IndexOf(ht, key) + 1]
    IN  The({[ht |-> [ht EXCEPT !.buckets[bid] = r.bucket], ret |-> r.ret]
             : r \in {Bucket_Remove(ht.buckets[bid], key)}})

\* the rehash loop that fills bucket0 only
RECURSIVE Rehash_Drop(_, _, _, _, _)
Rehash_Drop(items, i, local_depth, size, pair) ==
    IF i > Len(items) THEN pair
    ELSE LET k == items[i][1]
             v == items[i][2]
         IN  The({Rehash_Drop(items, i + 1, local_depth, size, next)
                  : next \in {IF (Hash(k) \div Pow2(local_depth - 1)) % 2 = 1
                              THEN pair
                              ELSE <<Bucket_Insert(pair[1], size, k, v).bucket, pair[2]>>}})

\* the rehash loop of Insert: the items of the split bucket go to bucket0 or bucket1
RECURSIVE Rehash(_, _, _, _, _)
Rehash(items, i, local_depth, size, pair) ==
    IF i > Len(items) THEN pair
    ELSE LET k == items[i][1]
             v == items[i][2]
         IN  The({Rehash(items, i + 1, local_depth, size, next)
                  : next \in {IF (Hash(k) \div Pow2(local_depth - 1)) % 2 = 1
                              THEN <<pair[1], Bucket_Insert(pair[2], size, k, v).bucket>>
                              ELSE <<Bucket_Insert(pair[1], size, k, v).bucket, pair[2]>>}})

\* a split that doubles the directory whatever the local depth is
HT_Split_AlwaysDouble(ht, bid) ==
    LET bucket == ht.buckets[bid]
        grown == [ht EXCEPT !.dir_ = @ \o @, !.global_depth_ = @ + 1]
        local_depth == bucket.depth_ + 1
        empty == [depth_ |-> local_depth, list_ |-> <<>>]
        b1 == Len(ht.buckets) + 1
    IN  The({[grown EXCEPT
                 !.buckets = Append([@ EXCEPT ![bid] = pair[1]], pair[2]),
                 !.dir_ = [i \in 1..Len(@) |->
                             IF @[i] = bid
                             THEN IF ((i - 1) \div Pow2(local_depth - 1)) % 2 = 1 THEN b1 ELSE bid
                             ELSE @[i]],
                 !.num_buckets_ = @ + 1]
             : pair \in {Rehash(bucket.list_, 1, local_depth, ht.bucket_size_, <<empty, empty>>)}})

\* a split that leaves num_buckets_ as it is
HT_Split_NoCount(ht, bid) ==
    LET bucket == ht.buckets[bid]
        grown == IF bucket.depth_ = ht.global_depth_
                 THEN [ht EXCEPT !.dir_ = @ \o @, !.global_depth_ = @ + 1]
                 ELSE ht
        local_depth == bucket.depth_ + 1
        empty == [depth_ |-> local_depth, list_ |-> <<>>]
        b1 == Len(ht.buckets) + 1
    IN  The({[grown EXCEPT
                 !.buckets = Append([@ EXCEPT ![bid] = pair[1]], pair[2]),
                 !.dir_ = [i \in 1..Len(@) |->
                             IF @[i] = bid
                             THEN IF ((i - 1) \div Pow2(local_depth - 1)) % 2 = 1 THEN b1 ELSE bid
                             ELSE @[i]]]
             : pair \in {Rehash(bucket.list_, 1, local_depth, ht.bucket_size_, <<empty, empty>>)}})

\* one round of the while loop of Insert after the bucket turned out full.
\* bucket0 takes over the identity of the split bucket, which no slot keeps.
HT_Split(ht, bid) ==
    LET bucket == ht.buckets[bid]
        grown == IF bucket.depth_ = ht.global_depth_
                 THEN [ht EXCEPT !.dir_ = @ \o @, !.global_depth_ = @ + 1]
                 ELSE ht
        local_depth == bucket.depth_ + 1
        empty == [depth_ |-> local_depth, list_ |-> <<>>]
        b1 == Len(ht.buckets) + 1
    IN  The({[grown EXCEPT
                 !.buckets = Append([@ EXCEPT ![bid] = pair[1]], pair[2]),
                 !.dir_ = [i \in 1..Len(@) |->
                             IF @[i] = bid
                             THEN IF ((i - 1) \div Pow2(local_depth - 1)) % 2 = 1 THEN b1 ELSE bid
                             ELSE @[i]],
                 !.num_buckets_ = @ + 1]
             : pair \in {Rehash(bucket.list_, 1, local_depth, ht.bucket_size_, <<empty, empty>>)}})

RECURSIVE HT_Insert(_, _, _)
HT_Insert(ht, key, value) ==
    The({LET bid == h.dir_[IndexOf(h, key) + 1]
         IN  The({IF r.ret THEN [h EXCEPT !.buckets[bid] = r.bucket]
                  ELSE HT_Insert(HT_Split(h, bid), key, value)
                  : r \in {Bucket_Insert(h.buckets[bid], h.bucket_size_, key, value)}})
         : h \in {ht}})

\* the table at the head of each round of the while loop of Insert, the table
\* Insert starts from first; the last round is the one whose Bucket::Insert succeeds
RECURSIVE InsertRounds(_, _, _)
InsertRounds(ht, key, value) ==
    The({LET bid == h.dir_[IndexOf(h, key) + 1]
         IN  IF Bucket_Insert(h.buckets[bid], h.bucket_size_, key, value).ret THEN <<h>>
             ELSE <<h>> \o InsertRounds(HT_Split(h, bid), key, value)
         : h \in {ht}})

\* a round that goes back to the head of the loop without splitting the full bucket
InsertRound_NoSplit(ht, key, value) ==
    LET bid == ht.dir_[IndexOf(ht, key) + 1]
    IN  The({IF r.ret THEN [ht |-> [ht EXCEPT !.buckets[bid] = r.bucket], done |-> TRUE]
             ELSE [ht |-> ht, done |-> FALSE]
             : r \in {Bucket_Insert(ht.buckets[bid], ht.bucket_size_, key, value)}})

\* one round of the while loop of Insert: done when Bucket::Insert succeeded and Insert
\* returns, else the table after the split, with which the loop goes round again
InsertRound(ht, key, value) ==
    LET bid == ht.dir_[IndexOf(ht, key) + 1]
    IN  The({IF r.ret THEN [ht |-> [ht EXCEPT !.buckets[bid] = r.bucket], done |-> TRUE]
             ELSE [ht |-> HT_Split(ht, bid), done |-> FALSE]
             : r \in {Bucket_Insert(ht.buckets[bid], ht.bucket_size_, key, value)}})

(***************************************************************************)
(* LRUKReplacer                                                            *)
(***************************************************************************)
LRUK_New(num_frames, k) ==
    [replacer_size_ |-> num_frames, k_ |-> k, curr_size_ |-> 0,
     current_timestamp_ |-> 0, frame_table_ |-> EmptyMap]

\* EvictStep that compares the K-distances only, without the tie-break
EvictStep_NoTieBreak(r, fid, acc) ==
    LET info == r.frame_table_[fid]
        k_distance == IF Len(info.history_) < r.k_ THEN SIZE_MAX
                      ELSE r.current_timestamp_ - Head(info.history_)
        frame_earliest == Head(info.history_)
    IN  IF ~info.is_evictable_ THEN acc
        ELSE IF k_distance > acc[2] \/ acc[1] = -1
        THEN <<fid, k_distance, frame_earliest>>
        ELSE acc

\* EvictStep that prefers the most recent K-th access
EvictStep_Recent(r, fid, acc) ==
    LET info == r.frame_table_[fid]
        k_distance == IF Len(info.history_) < r.k_ THEN SIZE_MAX
                      ELSE r.current_timestamp_ - Head(info.history_)
        frame_earliest == Head(info.history_)
    IN  IF ~info.is_evictable_ THEN acc
        ELSE IF acc[1] = -1 \/ k_distance < acc[2]
        THEN <<fid, k_distance, frame_earliest>>
        ELSE acc

\* the loop body of Evict for one frame: acc is <<candidate, max_k_distance, earliest_timestamp>>
EvictStep(r, fid, acc) ==
    LET info == r.frame_table_[fid]
        k_distance == IF Len(info.history_) < r.k_ THEN SIZE_MAX
                      ELSE r.current_timestamp_ - Head(info.history_)
        frame_earliest == Head(info.history_)
    IN  IF ~info.is_evictable_ THEN acc
        ELSE IF k_distance > acc[2] \/ (k_distance = acc[2] /\ frame_earliest < acc[3])
        THEN <<fid, k_distance, frame_earliest>>
        ELSE acc

\* the loop of Evict over frame_table_; the selection is a maximum under a strict
\* order on distinct timestamps, so the iteration order of the map does not matter
RECURSIVE EvictScan(_, _, _)
EvictScan(r, todo, acc) ==
    IF todo = {} THEN acc
    ELSE The({The({EvictScan(r, st[1], st[2])
                   : st \in {<<todo \ {fid}, EvictStep(r, fid, acc)>>}})
              : fid \in {CHOOSE f \in todo : \A g \in todo : f <= g}})

LRUK_Evict(r) ==
    IF r.curr_size_ = 0 THEN [r |-> r, ret |-> FALSE, frame_id |-> NULL]
    ELSE The({IF acc[1] = -1 THEN [r |-> r, ret |-> FALSE, frame_id |-> NULL]
              ELSE [r |-> [r EXCEPT !.frame_table_ = MapDel(@, acc[1]), !.curr_size_ = @ - 1],
                    ret |-> TRUE, frame_id |-> acc[1]]
              : acc \in {EvictScan(r, DOMAIN r.frame_table_, <<-1, 0, SIZE_MAX>>)}})

LRUK_RecordAccess(r, frame_id) ==
    IF frame_id > r.replacer_size_ THEN r
    ELSE LET ts == r.current_timestamp_ + 1
             old == IF frame_id \in DOMAIN r.frame_table_
                    THEN r.frame_table_[frame_id]
                    ELSE [history_ |-> <<>>, is_evictable_ |-> FALSE]
             pushed == Append(old.history_, ts)
             hist == IF Len(pushed) > r.k_ THEN Tail(pushed) ELSE pushed
         IN  [r EXCEPT !.current_timestamp_ = ts,
                       !.frame_table_ = MapPut(@, frame_id, [old EXCEPT !.history_ = hist])]

\* SetEvictable that counts every call with set_evictable = true
LRUK_SetEvictable_Count(r, frame_id, set_evictable) ==
    IF frame_id \notin DOMAIN r.frame_table_ THEN r
    ELSE LET info == r.frame_table_[frame_id]
             size == IF info.is_evictable_ /\ ~set_evictable THEN r.curr_size_ - 1
                     ELSE IF set_evictable THEN r.curr_size_ + 1
                     ELSE r.curr_size_
         IN  [r EXCEPT !.curr_size_ = size,
                       !.frame_table_[frame_id].is_evictable_ = set_evictable]

LRUK_SetEvictable(r, frame_id, set_evictable) ==
    IF frame_id \notin DOMAIN r.frame_table_ THEN r
    ELSE LET info == r.frame_table_[frame_id]
             size == IF info.is_evictable_ /\ ~set_evictable THEN r.curr_size_ - 1
                     ELSE IF ~info.is_evictable_ /\ set_evictable THEN r.curr_size_ + 1
                     ELSE r.curr_size_
         IN  [r EXCEPT !.curr_size_ = size,
                       !.frame_table_[frame_id].is_evictable_ = set_evictable]

LRUK_Remove(r, frame_id) ==
    IF frame_id \notin DOMAIN r.frame_table_ THEN r
    ELSE IF ~r.frame_table_[frame_id].is_evictable_ THEN r
    ELSE [r EXCEPT !.frame_table_ = MapDel(@, frame_id), !.curr_size_ = @ - 1]

LRUK_Size(r) == r.curr_size_

(***************************************************************************)
(* DiskManager (external): WritePage stores the image, ReadPage returns    *)
(* the stored image; a page never written reads as zero bytes (the buffer  *)
(* was reset just before the read).                                        *)
(***************************************************************************)
Disk_WritePage(disk, page_id, data) == MapPut(disk, page_id, data)

Disk_ReadPage(disk, page_id) == IF page_id \in DOMAIN disk THEN disk[page_id] ELSE ZeroPage

(***************************************************************************)
(* BufferPoolManagerInstance                                               *)
(* io lists, in program order, the disk calls and frame resets of the      *)
(* public call in progress (emptied when a public call starts).            *)
(***************************************************************************)
BPM_New(pool_size, replacer_k) ==
    [pool_size_ |-> pool_size,
     pages_ |-> [f \in 0..(pool_size - 1) |-> FreshFrame],
     page_table_ |-> HT_New(BucketSize),
     replacer_ |-> LRUK_New(pool_size, replacer_k),
     free_list_ |-> [i \in 1..pool_size |-> i - 1],
     next_page_id_ |-> 0,
     disk |-> EmptyMap,
     io |-> <<>>]

EvEvict(f, p, d) == [ev |-> "evict", frame |-> f, page |-> p, dirty |-> d]
EvWrite(p, data) == [ev |-> "write", page |-> p, data |-> data]
EvRead(p) == [ev |-> "read", page |-> p]
EvReset(f) == [ev |-> "reset", frame |-> f]

\* EvictFrame with the write-back of a dirty victim left out
EvictFrame_NoWrite(b) ==
    The({IF ~e.ret THEN [ok |-> FALSE, b |-> b, frame_id |-> NULL]
         ELSE LET victim == b.pages_[e.frame_id]
                  b1 == [b EXCEPT !.replacer_ = e.r,
                                  !.io = Append(@, EvEvict(e.frame_id, victim.page_id_,
                                                           victim.is_dirty_))]
              IN  [ok |-> TRUE,
                   b |-> [b1 EXCEPT !.page_table_ = HT_Remove(@, victim.page_id_).ht],
                   frame_id |-> e.frame_id]
         : e \in {LRUK_Evict(b.replacer_)}})

\* the eviction branch of NewPgImp / FetchPgImp: victim from the replacer, written
\* out when dirty, dropped from the page table
EvictFrame(b) ==
    The({IF ~e.ret THEN [ok |-> FALSE, b |-> b, frame_id |-> NULL]
         ELSE LET victim == b.pages_[e.frame_id]
                  b1 == [b EXCEPT !.replacer_ = e.r,
                                  !.io = Append(@, EvEvict(e.frame_id, victim.page_id_,
                                                           victim.is_dirty_))]
                  b2 == IF victim.is_dirty_
                        THEN [b1 EXCEPT !.disk = Disk_WritePage(@, victim.page_id_, victim.data_),
                                        !.io = Append(@, EvWrite(victim.page_id_, victim.data_))]
                        ELSE b1
              IN  [ok |-> TRUE,
                   b |-> [b2 EXCEPT !.page_table_ = HT_Remove(@, victim.page_id_).ht],
                   frame_id |-> e.frame_id]
         : e \in {LRUK_Evict(b.replacer_)}})

\* "get a frame": the free list first, else an eviction
TakeFrame(b) ==
    IF b.free_list_ # <<>>
    THEN [ok |-> TRUE, b |-> [b EXCEPT !.free_list_ = Tail(@)], frame_id |-> Head(b.free_list_)]
    ELSE EvictFrame(b)

AllocatePage(b) == [b |-> [b EXCEPT !.next_page_id_ = @ + 1], ret |-> b.next_page_id_]

\* Register with the freshly pinned frame left evictable
Register_Evictable(b, page_id, frame_id) ==
    [b EXCEPT !.page_table_ = HT_Insert(@, page_id, frame_id),
              !.replacer_ = The({LRUK_SetEvictable(r, frame_id, TRUE)
                                 : r \in {LRUK_RecordAccess(@, frame_id)}})]

\* the tail of NewPgImp / FetchPgImp: the frame is registered and pinned
Register(b, page_id, frame_id) ==
    [b EXCEPT !.page_table_ = HT_Insert(@, page_id, frame_id),
              !.replacer_ = The({LRUK_SetEvictable(r, frame_id, FALSE)
                                 : r \in {LRUK_RecordAccess(@, frame_id)}})]

\* NewPgImp that allocates the page id before it looks for a frame
NewPgImp_AllocFirst(b0) ==
    The({The({IF ~t.ok THEN [b |-> t.b, ret |-> NULL, page_id |-> INVALID_PAGE_ID]
              ELSE [b |-> Register([t.b EXCEPT
                                       !.pages_[t.frame_id] =
                                           [page_id_ |-> a.ret, pin_count_ |-> 1,
                                            is_dirty_ |-> FALSE, data_ |-> ZeroPage],
                                       !.io = Append(@, EvReset(t.frame_id))],
                                   a.ret, t.frame_id),
                    ret |-> t.frame_id, page_id |-> a.ret]
              : t \in {TakeFrame(a.b)}})
         : a \in {AllocatePage([b0 EXCEPT !.io = <<>>])}})

NewPgImp(b0) ==
    The({IF ~t.ok THEN [b |-> t.b, ret |-> NULL, page_id |-> INVALID_PAGE_ID]
         ELSE The({[b |-> Register([a.b EXCEPT
                                       !.pages_[t.frame_id] =
                                           [page_id_ |-> a.ret, pin_count_ |-> 1,
                                            is_dirty_ |-> FALSE, data_ |-> ZeroPage],
                                       !.io = Append(@, EvReset(t.frame_id))],
                                   a.ret, t.frame_id),
                    ret |-> t.frame_id, page_id |-> a.ret]
                   : a \in {AllocatePage(t.b)}})
         : t \in {TakeFrame([b0 EXCEPT !.io = <<>>])}})

\* FetchPgImp without the lookup in the page table: the page is always loaded into a
\* frame taken from the free list or the replacer
FetchPgImp_NoLookup(b0, page_id) ==
    The({The({IF ~t.ok THEN [b |-> t.b, ret |-> NULL]
              ELSE [b |-> Register([t.b EXCEPT
                                       !.pages_[t.frame_id] =
                                           [page_id_ |-> page_id, pin_count_ |-> 1,
                                            is_dirty_ |-> FALSE,
                                            data_ |-> Disk_ReadPage(t.b.disk, page_id)],
                                       !.io = @ \o <<EvReset(t.frame_id), EvRead(page_id)>>],
                                   page_id, t.frame_id),
                    ret |-> t.frame_id]
              : t \in {TakeFrame(b)}})
         : b \in {[b0 EXCEPT !.io = <<>>]}})

FetchPgImp(b0, page_id) ==
    The({The({
        IF hit.found
        THEN [b |-> [b EXCEPT !.pages_[hit.value].pin_count_ = @ + 1,
                              !.replacer_ = The({LRUK_SetEvictable(r, hit.value, FALSE)
                                                 : r \in {LRUK_RecordAccess(@, hit.value)}})],
              ret |-> hit.value]
        ELSE The({IF ~t.ok THEN [b |-> t.b, ret |-> NULL]
                  ELSE [b |-> Register([t.b EXCEPT
                                           !.pages_[t.frame_id] =
                                               [page_id_ |-> page_id, pin_count_ |-> 1,
                                                is_dirty_ |-> FALSE,
                                                data_ |-> Disk_ReadPage(t.b.disk, page_id)],
                                           !.io = @ \o <<EvReset(t.frame_id), EvRead(page_id)>>],
                                       page_id, t.frame_id),
                        ret |-> t.frame_id]
                  : t \in {TakeFrame(b)}})
        : hit \in {HT_Find(b.page_table_, page_id)}})
        : b \in {[b0 EXCEPT !.io = <<>>]}})

\* UnpinPgImp without the test of the pin count
UnpinPgImp_NoCheck(b0, page_id, is_dirty) ==
    The({The({
        IF ~hit.found THEN [b |-> b, ret |-> FALSE]
        ELSE LET f == hit.value
                 b1 == [b EXCEPT !.pages_[f].pin_count_ = @ - 1,
                                 !.pages_[f].is_dirty_ = IF is_dirty THEN TRUE ELSE @]
             IN  [b |-> IF b1.pages_[f].pin_count_ = 0
                        THEN [b1 EXCEPT !.replacer_ = LRUK_SetEvictable(@, f, TRUE)]
                        ELSE b1,
                  ret |-> TRUE]
        : hit \in {HT_Find(b.page_table_, page_id)}})
        : b \in {[b0 EXCEPT !.io = <<>>]}})

\* UnpinPgImp that stores is_dirty into the flag instead of or-ing it in
UnpinPgImp_Assign(b0, page_id, is_dirty) ==
    The({The({
        IF ~hit.found THEN [b |-> b, ret |-> FALSE]
        ELSE IF b.pages_[hit.value].pin_count_ <= 0 THEN [b |-> b, ret |-> FALSE]
        ELSE LET f == hit.value
                 b1 == [b EXCEPT !.pages_[f].pin_count_ = @ - 1,
                                 !.pages_[f].is_dirty_ = is_dirty]
             IN  [b |-> IF b1.pages_[f].pin_count_ = 0
                        THEN [b1 EXCEPT !.replacer_ = LRUK_SetEvictable(@, f, TRUE)]
                        ELSE b1,
                  ret |-> TRUE]
        : hit \in {HT_Find(b.page_table_, page_id)}})
        : b \in {[b0 EXCEPT !.io = <<>>]}})

UnpinPgImp(b0, page_id, is_dirty) ==
    The({The({
        IF ~hit.found THEN [b |-> b, ret |-> FALSE]
        ELSE IF b.pages_[hit.value].pin_count_ <= 0 THEN [b |-> b, ret |-> FALSE]
        ELSE LET f == hit.value
                 b1 == [b EXCEPT !.pages_[f].pin_count_ = @ - 1,
                                 !.pages_[f].is_dirty_ = IF is_dirty THEN TRUE ELSE @]
             IN  [b |-> IF b1.pages_[f].pin_count_ = 0
                        THEN [b1 EXCEPT !.replacer_ = LRUK_SetEvictable(@, f, TRUE)]
                        ELSE b1,
                  ret |-> TRUE]
        : hit \in {HT_Find(b.page_table_, page_id)}})
        : b \in {[b0 EXCEPT !.io = <<>>]}})

\* FlushPgImp that writes only a dirty page
FlushPgImp_IfDirty(b0, page_id) ==
    The({The({
        IF ~hit.found THEN [b |-> b, ret |-> FALSE]
        ELSE LET f == hit.value
             IN  [b |-> IF b.pages_[f].is_dirty_
                        THEN [b EXCEPT !.disk = Disk_WritePage(@, page_id, b.pages_[f].data_),
                                       !.io = Append(@, EvWrite(page_id, b.pages_[f].data_)),
                                       !.pages_[f].is_dirty_ = FALSE]
                        ELSE b,
                  ret |-> TRUE]
        : hit \in {HT_Find(b.page_table_, page_id)}})
        : b \in {[b0 EXCEPT !.io = <<>>]}})

FlushPgImp(b0, page_id) ==
    The({The({
        IF ~hit.found THEN [b |-> b, ret |-> FALSE]
        ELSE LET f == hit.value
             IN  [b |-> [b EXCEPT !.disk = Disk_WritePage(@, page_id, b.pages_[f].data_),
                                  !.io = Append(@, EvWrite(page_id, b.pages_[f].data_)),
                                  !.pages_[f].is_dirty_ = FALSE],
                  ret |-> TRUE]
        : hit \in {HT_Find(b.page_table_, page_id)}})
        : b \in {[b0 EXCEPT !.io = <<>>]}})

RECURSIVE FlushAllLoop(_, _)
FlushAllLoop(b, i) ==
    IF i >= b.pool_size_ THEN b
    ELSE IF b.pages_[i].page_id_ # INVALID_PAGE_ID /\ b.pages_[i].is_dirty_
    THEN The({FlushAllLoop(b1, i + 1)
              : b1 \in {[b EXCEPT
                            !.disk = Disk_WritePage(@, b.pages_[i].page_id_, b.pages_[i].data_),
                            !.io = Append(@, EvWrite(b.pages_[i].page_id_, b.pages_[i].data_)),
                            !.pages_[i].is_dirty_ = FALSE]}})
    ELSE FlushAllLoop(b, i + 1)

FlushAllPgsImp(b0) == The({FlushAllLoop(b, 0) : b \in {[b0 EXCEPT !.io = <<>>]}})

\* DeletePgImp that does not give the frame back to the free list
DeletePgImp_NoFree(b0, page_id) ==
    The({The({
        IF ~hit.found THEN [b |-> b, ret |-> TRUE]
        ELSE IF b.pages_[hit.value].pin_count_ > 0 THEN [b |-> b, ret |-> FALSE]
        ELSE LET f == hit.value
             IN  [b |-> [b EXCEPT !.page_table_ = HT_Remove(@, page_id).ht,
                                  !.replacer_ = LRUK_Remove(@, f),
                                  !.pages_[f] = FreshFrame,
                                  !.io = Append(@, EvReset(f))],
                  ret |-> TRUE]
        : hit \in {HT_Find(b.page_table_, page_id)}})
        : b \in {[b0 EXCEPT !.io = <<>>]}})

\* DeletePgImp that leaves the frame's record in the replacer
DeletePgImp_NoReplacer(b0, page_id) ==
    The({The({
        IF ~hit.found THEN [b |-> b, ret |-> TRUE]
        ELSE IF b.pages_[hit.value].pin_count_ > 0 THEN [b |-> b, ret |-> FALSE]
        ELSE LET f == hit.value
             IN  [b |-> [b EXCEPT !.page_table_ = HT_Remove(@, page_id).ht,
                                  !.pages_[f] = FreshFrame,
                                  !.io = Append(@, EvReset(f)),
                                  !.free_list_ = Append(@, f)],
                  ret |-> TRUE]
        : hit \in {HT_Find(b.page_table_, page_id)}})
        : b \in {[b0 EXCEPT !.io = <<>>]}})

\* DeletePgImp that writes a dirty page out before it resets the frame
DeletePgImp_Flush(b0, page_id) ==
    The({The({
        IF ~hit.found THEN [b |-> b, ret |-> TRUE]
        ELSE IF b.pages_[hit.value].pin_count_ > 0 THEN [b |-> b, ret |-> FALSE]
        ELSE LET f == hit.value
                 b1 == IF b.pages_[f].is_dirty_
                       THEN [b EXCEPT !.disk = Disk_WritePage(@, page_id, b.pages_[f].data_),
                                      !.io = Append(@, EvWrite(page_id, b.pages_[f].data_))]
                       ELSE b
             IN  [b |-> [b1 EXCEPT !.page_table_ = HT_Remove(@, page_id).ht,
                                   !.replacer_ = LRUK_Remove(@, f),
                                   !.pages_[f] = FreshFrame,
                                   !.io = Append(@, EvReset(f)),
                                   !.free_list_ = Append(@, f)],
                  ret |-> TRUE]
        : hit \in {HT_Find(b.page_table_, page_id)}})
        : b \in {[b0 EXCEPT !.io = <<>>]}})

DeletePgImp(b0, page_id) ==
    The({The({
        IF ~hit.found THEN [b |-> b, ret |-> TRUE]
        ELSE IF b.pages_[hit.value].pin_count_ > 0 THEN [b |-> b, ret |-> FALSE]
        ELSE LET f == hit.value
             IN  [b |-> [b EXCEPT !.page_table_ = HT_Remove(@, page_id).ht,
                                  !.replacer_ = LRUK_Remove(@, f),
                                  !.pages_[f] = FreshFrame,
                                  !.io = Append(@, EvReset(f)),
                                  !.free_list_ = Append(@, f)],
                  ret |-> TRUE]
        : hit \in {HT_Find(b.page_table_, page_id)}})
        : b \in {[b0 EXCEPT !.io = <<>>]}})

(***************************************************************************)
(* IndexIterator: the constructors.  buffer_pool_manager_ is kept as the   *)
(* flag "not null"; alive tells whether the caller holds an iterator       *)
(* object at all.                                                          *)
(***************************************************************************)
IndexIterator ==
    [alive |-> TRUE, buffer_pool_manager_ |-> FALSE, leaf_ |-> NULL, index_ |-> 0,
     page_id_ |-> INVALID_PAGE_ID]

\* the caller holds no iterator
NoIterator == [IndexIterator EXCEPT !.alive = FALSE]

\* the replacer and the hash table of a run that uses neither on its own
NoReplacer == LRUK_New(0, 0)

NoTable == HT_New(0)

\* no thread calls the buffer pool concurrently
NoThreads == [pc |-> EmptyMap, call |-> EmptyMap, todo |-> EmptyMap, owner |-> EmptyMap]

(***************************************************************************)
(* Views of the buffer pool used by the properties                         *)
(***************************************************************************)
Frames(b) == 0..(b.pool_size_ - 1)

Resident(b, page_id) == HT_Find(b.page_table_, page_id).found

FrameOf(b, page_id) == HT_Find(b.page_table_, page_id).value

ResidentIds(b) == {b.pages_[f].page_id_ : f \in Frames(b)} \ {INVALID_PAGE_ID}

Range(seq) == {seq[i] : i \in 1..Len(seq)}

(***************************************************************************)
(* Specification of the buffer pool alone: any number of threads issue the *)
(* public calls; each call runs under latch_ from entry to return, so the  *)
(* calls are the atomic steps.  A thread holding a pin may write the bytes *)
(* of the pinned page.                                                     *)
(***************************************************************************)
NoTree ==
    [root_page_id_ |-> INVALID_PAGE_ID, leaf_max_size_ |-> 0, internal_max_size_ |-> 0,
     ub |-> FALSE]

\* the bytes a thread writes into a page it holds pinned (any non-zero image)
WrittenImage == [ZeroPage EXCEPT !.size_ = 1]

InitBPM ==
    /\ \E n \in 1..MaxPool : bpm = BPM_New(n, ReplacerK)
    /\ tree = NoTree
    /\ last = [op |-> "init"]
    /\ model = EmptyMap
    /\ iter = NoIterator
    /\ replacer = NoReplacer
    /\ table = NoTable
    /\ threads = NoThreads

\* the page ids allocated so far, and one never allocated
PageIds == 0..bpm.next_page_id_

\* a call is made as long as the accesses it records stay within MaxTime
BPM_NewPage ==
    /\ \E r \in {NewPgImp(bpm)} :
          /\ r.b.replacer_.current_timestamp_ <= MaxTime
          /\ bpm' = r.b
          /\ last' = [op |-> "NewPage", ret |-> r.ret, page_id |-> r.page_id]
    /\ UNCHANGED <<tree, model, iter, replacer, table, threads>>

BPM_FetchPage ==
    /\ \E p \in 0..(bpm.next_page_id_ - 1) :
          \E r \in {FetchPgImp(bpm, p)} :
              /\ r.b.replacer_.current_timestamp_ <= MaxTime
              /\ bpm' = r.b
              /\ last' = [op |-> "FetchPage", ret |-> r.ret, page_id |-> p]
    /\ UNCHANGED <<tree, model, iter, replacer, table, threads>>

BPM_UnpinPage ==
    /\ \E p \in PageIds, d \in BOOLEAN :
          \E r \in {UnpinPgImp(bpm, p, d)} :
              /\ bpm' = r.b
              /\ last' = [op |-> "UnpinPage", ret |-> r.ret, page_id |-> p, is_dirty |-> d]
    /\ UNCHANGED <<tree, model, iter, replacer, table, threads>>

BPM_FlushPage ==
    /\ \E p \in PageIds :
          \E r \in {FlushPgImp(bpm, p)} :
              /\ bpm' = r.b
              /\ last' = [op |-> "FlushPage", ret |-> r.ret, page_id |-> p,
                          dirty |-> \E f \in Frames(bpm) : /\ bpm.pages_[f].page_id_ = p
                                                           /\ bpm.pages_[f].is_dirty_]
    /\ UNCHANGED <<tree, model, iter, replacer, table, threads>>

BPM_FlushAllPages ==
    /\ bpm' = FlushAllPgsImp(bpm)
    /\ last' = [op |-> "FlushAllPages"]
    /\ UNCHANGED <<tree, model, iter, replacer, table, threads>>

BPM_DeletePage ==
    /\ \E p \in PageIds :
          \E r \in {DeletePgImp(bpm, p)} :
              /\ bpm' = r.b
              /\ last' = [op |-> "DeletePage", ret |-> r.ret, page_id |-> p,
                          dirty |-> \E f \in Frames(bpm) : /\ bpm.pages_[f].page_id_ = p
                                                           /\ bpm.pages_[f].is_dirty_]
    /\ UNCHANGED <<tree, model, iter, replacer, table, threads>>

\* a thread that holds a pin on page p writes bytes into it
BPM_WriteData ==
    /\ \E f \in Frames(bpm) :
          /\ bpm.pages_[f].pin_count_ >= 1
          /\ bpm.pages_[f].data_ # WrittenImage
          /\ bpm' = [bpm EXCEPT !.pages_[f].data_ = WrittenImage, !.io = <<>>]
          /\ last' = [op |-> "WriteData", frame |-> f]
    /\ UNCHANGED <<tree, model, iter, replacer, table, threads>>

NextBPM ==
    \/ BPM_NewPage
    \/ BPM_FetchPage
    \/ BPM_UnpinPage
    \/ BPM_FlushPage
    \/ BPM_FlushAllPages
    \/ BPM_DeletePage
    \/ BPM_WriteData

SpecBPM == InitBPM /\ [][NextBPM]_vars

(***************************************************************************)
(* Specification of the replacer alone: the public calls of LRUKReplacer,  *)
(* each under latch_ from entry to return.  model is here the ghost        *)
(* frame -> every timestamp recorded for the frame since its record was    *)
(* created, which the K retained entries of history_ are compared with.    *)
(***************************************************************************)
NoPool == BPM_New(0, 0)

InitLRU ==
    /\ \E n \in 1..MaxFrames, k \in 1..ReplacerK : replacer = LRUK_New(n, k)
    /\ bpm = NoPool
    /\ tree = NoTree
    /\ last = [op |-> "init"]
    /\ model = EmptyMap
    /\ iter = NoIterator
    /\ table = NoTable
    /\ threads = NoThreads

\* the frame ids a caller passes: the valid ones, num_frames and num_frames + 1
FrameIds == 0..(replacer.replacer_size_ + 1)

\* the tracked frames whose evictable flag is set
EvictableFrames(r) == {f \in DOMAIN r.frame_table_ : r.frame_table_[f].is_evictable_}

\* the ghost keeps the records the replacer keeps
Kept(r, hist) == [f \in DOMAIN r.frame_table_ |-> hist[f]]

LRU_RecordAccess ==
    /\ \E f \in FrameIds :
          \E r \in {LRUK_RecordAccess(replacer, f)} :
              /\ r.current_timestamp_ <= MaxAccess
              /\ replacer' = r
              /\ model' = IF r.current_timestamp_ = replacer.current_timestamp_ THEN model
                          ELSE MapPut(model, f,
                                      Append(IF f \in DOMAIN model THEN model[f] ELSE <<>>,
                                             r.current_timestamp_))
              /\ last' = [op |-> "RecordAccess", frame_id |-> f]
    /\ UNCHANGED <<bpm, tree, iter, table, threads>>

LRU_SetEvictable ==
    /\ \E f \in FrameIds, flag \in BOOLEAN :
          /\ replacer' = LRUK_SetEvictable(replacer, f, flag)
          /\ last' = [op |-> "SetEvictable", frame_id |-> f, set_evictable |-> flag]
    /\ UNCHANGED <<bpm, tree, model, iter, table, threads>>

LRU_Remove ==
    /\ \E f \in FrameIds :
          \E r \in {LRUK_Remove(replacer, f)} :
              /\ replacer' = r
              /\ model' = Kept(r, model)
              /\ last' = [op |-> "Remove", frame_id |-> f]
    /\ UNCHANGED <<bpm, tree, iter, table, threads>>

LRU_Evict ==
    /\ \E e \in {LRUK_Evict(replacer)} :
          /\ replacer' = e.r
          /\ model' = Kept(e.r, model)
          /\ last' = [op |-> "Evict", ret |-> e.ret, frame_id |-> e.frame_id,
                      among |-> {<<f, Len(model[f])>> : f \in EvictableFrames(replacer)}]
    /\ UNCHANGED <<bpm, tree, iter, table, threads>>

NextLRU ==
    \/ LRU_RecordAccess
    \/ LRU_SetEvictable
    \/ LRU_Remove
    \/ LRU_Evict

SpecLRU == InitLRU /\ [][NextLRU]_vars

(***************************************************************************)
(* Specification of the hash table alone: the public calls of              *)
(* ExtendibleHashTable<int, int>, each under latch_ from entry to return.  *)
(* model is the ghost key -> value map the calls should have produced.     *)
(***************************************************************************)
HashKeys == 0..MaxHashKey

\* two values tell an overwritten entry from a kept one
HashValues == {1, 2}

InitHT ==
    /\ \E size \in 1..BucketSize : table = HT_New(size)
    /\ threads = NoThreads
    /\ bpm = NoPool
    /\ tree = NoTree
    /\ last = [op |-> "init", n |-> 0]
    /\ model = EmptyMap
    /\ iter = NoIterator
    /\ replacer = NoReplacer

HT_DoInsert ==
    /\ last.n < MaxHashOps
    /\ \E k \in HashKeys, v \in HashValues :
          \E t \in {HT_Insert(table, k, v)} :
              /\ table' = t
              /\ model' = MapPut(model, k, v)
              /\ last' = [op |-> "Insert", n |-> last.n + 1, key |-> k, value |-> v,
                          present |-> k \in DOMAIN model,
                          full |-> Len(table.buckets[table.dir_[IndexOf(table, k) + 1]].list_)
                                      >= table.bucket_size_,
                          splits |-> t.num_buckets_ - table.num_buckets_,
                          doubled |-> t.global_depth_ - table.global_depth_]
    /\ UNCHANGED <<bpm, tree, iter, replacer, threads>>

HT_DoRemove ==
    /\ last.n < MaxHashOps
    /\ \E k \in HashKeys :
          \E r \in {HT_Remove(table, k)} :
              /\ table' = r.ht
              /\ model' = MapDel(model, k)
              /\ last' = [op |-> "Remove", n |-> last.n + 1, key |-> k, ret |-> r.ret]
    /\ UNCHANGED <<bpm, tree, iter, replacer, threads>>

HT_DoFind ==
    /\ \E k \in HashKeys :
          \E r \in {HT_Find(table, k)} :
              last' = [op |-> "Find", n |-> last.n, key |-> k, ret |-> r.found,
                       value |-> r.value]
    /\ UNCHANGED <<bpm, tree, model, iter, replacer, table, threads>>

NextHT ==
    \/ HT_DoInsert
    \/ HT_DoRemove
    \/ HT_DoFind

SpecHT == InitHT /\ [][NextHT]_vars

(***************************************************************************)
(* Scenario A of the replacer: LRUKReplacer(7, 2), the twelve accesses in  *)
(* order, then every frame id marked evictable (in any order), then one    *)
(* Evict.  last.marked is the set of frame ids marked so far.              *)
(***************************************************************************)
ScenarioA_Accesses == <<1, 2, 3, 4, 5, 6, 1, 2, 3, 4, 5, 6>>

InitScenarioA ==
    /\ replacer = LRUK_New(7, 2)
    /\ bpm = NoPool
    /\ tree = NoTree
    /\ last = [op |-> "init", n |-> 0, marked |-> {}]
    /\ model = EmptyMap
    /\ iter = NoIterator
    /\ table = NoTable
    /\ threads = NoThreads

ScA_RecordAccess ==
    /\ last.op \in {"init", "RecordAccess"}
    /\ last.n < Len(ScenarioA_Accesses)
    /\ \E f \in {ScenarioA_Accesses[last.n + 1]} :
          \E r \in {LRUK_RecordAccess(replacer, f)} :
              /\ replacer' = r
              /\ model' = MapPut(model, f,
                                 Append(IF f \in DOMAIN model THEN model[f] ELSE <<>>,
                                        r.current_timestamp_))
              /\ last' = [op |-> "RecordAccess", n |-> last.n + 1, marked |-> {}]
    /\ UNCHANGED <<bpm, tree, iter, table, threads>>

ScA_SetEvictable ==
    /\ last.op \in {"RecordAccess", "SetEvictable"}
    /\ last.n = Len(ScenarioA_Accesses)
    /\ \E f \in (0..replacer.replacer_size_) \ last.marked :
          /\ replacer' = LRUK_SetEvictable(replacer, f, TRUE)
          /\ last' = [op |-> "SetEvictable", n |-> last.n, marked |-> last.marked \cup {f}]
    /\ UNCHANGED <<bpm, tree, model, iter, table, threads>>

ScA_Evict ==
    /\ last.op = "SetEvictable"
    /\ last.marked = 0..replacer.replacer_size_
    /\ \E e \in {LRUK_Evict(replacer)} :
          /\ replacer' = e.r
          /\ model' = Kept(e.r, model)
          /\ last' = [op |-> "Evict", ret |-> e.ret, frame_id |-> e.frame_id,
                      among |-> {<<f, Len(model[f])>> : f \in EvictableFrames(replacer)}]
    /\ UNCHANGED <<bpm, tree, iter, table, threads>>

NextScenarioA ==
    \/ ScA_RecordAccess
    \/ ScA_SetEvictable
    \/ ScA_Evict

SpecScenarioA == InitScenarioA /\ [][NextScenarioA]_vars

(***************************************************************************)
(* B+tree pages.  A node is the image stored in a frame; array_ holds the  *)
(* size_ live entries <<key, value>> (slot i of the C++ array is           *)
(* array_[i + 1]).  KeyType() is the all-zero key.                         *)
(***************************************************************************)
InvalidKey == 0

IsLeafPage(node) == node.page_type_ = LEAF_PAGE

IsRootPage(node) == node.parent_page_id_ = INVALID_PAGE_ID

\* BPlusTreePage::GetMinSize
GetMinSize(node) ==
    IF IsLeafPage(node) THEN node.max_size_ \div 2 ELSE (node.max_size_ + 1) \div 2

KeyAt(node, index) == node.array_[index + 1][1]

ValueAt(node, index) == node.array_[index + 1][2]

\* a read of array_[index] lies within the live entries
InRange(node, index) == 0 <= index /\ index < node.size_

InsertAt(array, index, entry) ==
    SubSeq(array, 1, index) \o <<entry>> \o SubSeq(array, index + 1, Len(array))

RemoveSlot(array, index) ==
    SubSeq(array, 1, index) \o SubSeq(array, index + 2, Len(array))

Leaf_Init(node, page_id, parent_id, max_size) ==
    [node EXCEPT !.size_ = 0, !.page_id_ = page_id, !.parent_page_id_ = parent_id,
                 !.max_size_ = max_size, !.page_type_ = LEAF_PAGE,
                 !.next_page_id_ = INVALID_PAGE_ID, !.array_ = <<>>]

\* the binary search of FindKeyIndex: -1 when the key is present, else the insert position
RECURSIVE FindKeyIndexLoop(_, _, _, _)
FindKeyIndexLoop(node, key, left, right) ==
    IF left > right THEN left
    ELSE LET mid == left + (right - left) \div 2
         IN  IF KeyAt(node, mid) = key THEN -1
             ELSE IF KeyAt(node, mid) < key THEN FindKeyIndexLoop(node, key, mid + 1, right)
             ELSE FindKeyIndexLoop(node, key, left, mid - 1)

FindKeyIndex(node, key) == FindKeyIndexLoop(node, key, 0, node.size_ - 1)

Leaf_Insert(node, key, value) ==
    LET insert_index == FindKeyIndex(node, key)
    IN  IF node.size_ >= node.max_size_ THEN [node |-> node, ret |-> FALSE]
        ELSE IF insert_index = -1 THEN [node |-> node, ret |-> FALSE]
        ELSE [node |-> [node EXCEPT !.array_ = InsertAt(@, insert_index, <<key, value>>),
                                    !.size_ = @ + 1],
              ret |-> TRUE]

\* returns the node, the recipient and the split key
Leaf_MoveHalfTo(node, recipient) ==
    LET start_index == node.size_ \div 2
        num_to_move == node.size_ - start_index
    IN  [node |-> [node EXCEPT !.array_ = SubSeq(@, 1, start_index), !.size_ = @ - num_to_move],
         recipient |-> [recipient EXCEPT
                           !.array_ = SubSeq(node.array_, start_index + 1, node.size_),
                           !.size_ = @ + num_to_move],
         split_key |-> KeyAt(node, start_index)]

\* linear search of a leaf for key: its index, -1 when absent
RECURSIVE Leaf_FindKey(_, _, _)
Leaf_FindKey(node, key, i) ==
    IF i >= node.size_ THEN -1
    ELSE IF KeyAt(node, i) = key THEN i
    ELSE Leaf_FindKey(node, key, i + 1)

Page_RemoveAt(node, index) ==
    IF index < 0 \/ index >= node.size_ THEN node
    ELSE [node EXCEPT !.array_ = RemoveSlot(@, index), !.size_ = @ - 1]

Internal_Init(node, page_id, parent_id, max_size) ==
    [node EXCEPT !.page_type_ = INTERNAL_PAGE, !.size_ = 0, !.page_id_ = page_id,
                 !.parent_page_id_ = parent_id, !.max_size_ = max_size, !.array_ = <<>>]

Internal_SetKeyAt(node, index, key) == [node EXCEPT !.array_[index + 1][1] = key]

\* first index >= from whose key is not below key (the while loop of Insert)
RECURSIVE Internal_LowerBound(_, _, _)
Internal_LowerBound(node, key, index) ==
    IF index < node.size_ /\ KeyAt(node, index) < key
    THEN Internal_LowerBound(node, key, index + 1)
    ELSE index

Internal_Insert(node, key, value) ==
    LET insert_index == Internal_LowerBound(node, key, 1)
    IN  IF node.size_ >= node.max_size_ THEN [node |-> node, ret |-> FALSE]
        ELSE IF node.size_ = 0
        THEN [node |-> [node EXCEPT !.array_ = <<<<InvalidKey, value>>>>, !.size_ = 1],
              ret |-> TRUE]
        ELSE IF insert_index < node.size_ /\ KeyAt(node, insert_index) = key
        THEN [node |-> node, ret |-> FALSE]
        ELSE [node |-> [node EXCEPT !.array_ = InsertAt(@, insert_index, <<key, value>>),
                                    !.size_ = @ + 1],
              ret |-> TRUE]

\* index of the first entry whose value is the given child, -1 when there is none
RECURSIVE Internal_FindValue(_, _, _)
Internal_FindValue(node, value, i) ==
    IF i >= node.size_ THEN -1
    ELSE IF ValueAt(node, i) = value THEN i
    ELSE Internal_FindValue(node, value, i + 1)

InsertNodeAfter(node, old_value, new_key, new_value) ==
    LET old_index == Internal_FindValue(node, old_value, 0)
    IN  IF old_index = -1 THEN node
        ELSE [node EXCEPT !.array_ = InsertAt(@, old_index + 1, <<new_key, new_value>>),
                          !.size_ = @ + 1]

Max(a, b) == IF a >= b THEN a ELSE b

Internal_MoveHalfTo(node, recipient) ==
    LET start_index == Max(1, node.size_ \div 2)
        num_to_move == node.size_ - start_index
        moved == SubSeq(node.array_, start_index + 1, node.size_)
    IN  [node |-> [node EXCEPT !.array_ = SubSeq(@, 1, start_index), !.size_ = @ - num_to_move],
         recipient |-> [recipient EXCEPT
                           !.array_ = [moved EXCEPT ![1][1] = InvalidKey],
                           !.size_ = @ + num_to_move],
         split_key |-> KeyAt(node, start_index)]

PopulateNewRoot(node, left_value, key, right_value) ==
    [node EXCEPT !.array_ = <<<<InvalidKey, left_value>>, <<key, right_value>>>>, !.size_ = 2]

(***************************************************************************)
(* BPlusTree.  The operators work on a world w: the buffer pool b, the     *)
(* tree's root_page_id_ and sizes, and the flag ub, raised when the code   *)
(* dereferences a null pointer or reads array_ outside its live entries    *)
(* (from there on the behaviour of the build is not defined).  nil tells   *)
(* whether a FetchPage or NewPage of the call in progress returned nullptr.*)
(***************************************************************************)
World(b, t) ==
    [b |-> b, root_page_id_ |-> t.root_page_id_, leaf_max_size_ |-> t.leaf_max_size_,
     internal_max_size_ |-> t.internal_max_size_, ub |-> t.ub, nil |-> FALSE]

TreeOf(w) ==
    [root_page_id_ |-> w.root_page_id_, leaf_max_size_ |-> w.leaf_max_size_,
     internal_max_size_ |-> w.internal_max_size_, ub |-> w.ub]

\* the node a pointer into frame f points at, and a write through that pointer
Data(w, f) == w.b.pages_[f].data_

Put(w, f, node) == [w EXCEPT !.b.pages_[f].data_ = node]

\* node->SetParentPageId(parent_id) through a pointer into frame f
SetParentPageId(w, f, parent_id) == [w EXCEPT !.b.pages_[f].data_.parent_page_id_ = parent_id]

\* Page::GetPageId of the Page object of frame f
PageIdOf(w, f) == w.b.pages_[f].page_id_

Undefined(w) == [w EXCEPT !.ub = TRUE]

FetchPage(w, page_id) ==
    The({[w |-> [w EXCEPT !.b = r.b, !.nil = @ \/ r.ret = NULL], page |-> r.ret]
         : r \in {FetchPgImp(w.b, page_id)}})

NewPage(w) ==
    The({[w |-> [w EXCEPT !.b = r.b, !.nil = @ \/ r.ret = NULL], page |-> r.ret,
          page_id |-> r.page_id]
         : r \in {NewPgImp(w.b)}})

UnpinPage(w, page_id, is_dirty) == [w EXCEPT !.b = UnpinPgImp(@, page_id, is_dirty).b]

DeletePage(w, page_id) == [w EXCEPT !.b = DeletePgImp(@, page_id).b]

IsEmpty(w) == w.root_page_id_ = INVALID_PAGE_ID

\* the header page is fetched, its record written (the record itself is the header
\* page's business) and unpinned dirty
UpdateRootPageId(w) ==
    The({IF r.page = NULL THEN Undefined(r.w)
         ELSE UnpinPage(r.w, HEADER_PAGE_ID, TRUE)
         : r \in {FetchPage(w, HEADER_PAGE_ID)}})

\* variant of ChildIndex that stops at a separator equal to key
RECURSIVE ChildIndex_Strict(_, _, _)
ChildIndex_Strict(node, key, index) ==
    IF index < node.size_ /\ KeyAt(node, index) < key
    THEN ChildIndex_Strict(node, key, index + 1)
    ELSE index

\* the inner while loop of FindLeafPage: the index after the last separator <= key
RECURSIVE ChildIndex(_, _, _)
ChildIndex(node, key, index) ==
    IF index < node.size_ /\ KeyAt(node, index) <= key
    THEN ChildIndex(node, key, index + 1)
    ELSE index

\* the outer while loop of FindLeafPage, page being pinned
RECURSIVE FindLeafLoop(_, _, _)
FindLeafLoop(w, page, key) ==
    IF IsLeafPage(Data(w, page)) THEN [w |-> w, page |-> page]
    ELSE The({
        IF ~InRange(Data(w, page), index - 1) THEN [w |-> Undefined(w), page |-> NULL]
        ELSE The({
            The({IF r.page = NULL THEN [w |-> w1, page |-> NULL]
                 ELSE FindLeafLoop(w1, r.page, key)
                 : w1 \in {UnpinPage(r.w, PageIdOf(r.w, page), FALSE)}})
            : r \in {FetchPage(w, ValueAt(Data(w, page), index - 1))}})
        : index \in {ChildIndex(Data(w, page), key, 1)}})

FindLeafPage(w, key) ==
    IF IsEmpty(w) THEN [w |-> w, page |-> NULL]
    ELSE The({IF r.page = NULL THEN [w |-> r.w, page |-> NULL]
              ELSE FindLeafLoop(r.w, r.page, key)
              : r \in {FetchPage(w, w.root_page_id_)}})

GetValue(w, key) ==
    IF IsEmpty(w) THEN [w |-> w, ret |-> FALSE, result |-> <<>>]
    ELSE The({
        IF r.page = NULL THEN [w |-> r.w, ret |-> FALSE, result |-> <<>>]
        ELSE The({
            IF i # -1
            THEN [w |-> UnpinPage(r.w, PageIdOf(r.w, r.page), FALSE),
                  ret |-> TRUE, result |-> <<ValueAt(Data(r.w, r.page), i)>>]
            ELSE [w |-> UnpinPage(r.w, PageIdOf(r.w, r.page), FALSE),
                  ret |-> FALSE, result |-> <<>>]
            : i \in {Leaf_FindKey(Data(r.w, r.page), key, 0)}})
        : r \in {FindLeafPage(w, key)}})

StartNewTree(w, key, value) ==
    The({
        IF r.page = NULL THEN [w |-> r.w, ret |-> FALSE]
        ELSE The({
            IF ~ins.ret
            THEN [w |-> DeletePage(UnpinPage(Put(r.w, r.page, ins.node), r.page_id, FALSE),
                                   r.page_id),
                  ret |-> FALSE]
            ELSE [w |-> UnpinPage(UpdateRootPageId([Put(r.w, r.page, ins.node)
                                                       EXCEPT !.root_page_id_ = r.page_id]),
                                  r.page_id, TRUE),
                  ret |-> TRUE]
            : ins \in {Leaf_Insert(Leaf_Init(Data(r.w, r.page), r.page_id, INVALID_PAGE_ID,
                                             w.leaf_max_size_), key, value)}})
        : r \in {NewPage(w)}})

\* the loop of Split that re-parents the children moved to the new internal page
RECURSIVE ReparentLoop(_, _, _, _)
ReparentLoop(w, from, i, new_parent_id) ==
    IF i >= Data(w, from).size_ THEN w
    ELSE The({
        IF r.page = NULL THEN ReparentLoop(r.w, from, i + 1, new_parent_id)
        ELSE The({ReparentLoop(w1, from, i + 1, new_parent_id)
                  : w1 \in {UnpinPage(SetParentPageId(r.w, r.page, new_parent_id),
                                      ValueAt(Data(w, from), i), TRUE)}})
        : r \in {FetchPage(w, ValueAt(Data(w, from), i))}})

\* Split<N>(node): the new page (NULL when the pool gave none) and the split key
Split(w, node) ==
    The({
        IF r.page = NULL THEN [w |-> r.w, new_node |-> NULL, split_key |-> InvalidKey]
        ELSE LET old == Data(r.w, node)
                 fresh == Data(r.w, r.page)
             IN  IF IsLeafPage(old)
                 THEN The({[w |-> Put(Put(r.w, node, lm.node), r.page, lm.recipient),
                            new_node |-> r.page, split_key |-> lm.split_key]
                           : lm \in {Leaf_MoveHalfTo(
                                        [old EXCEPT !.next_page_id_ = r.page_id],
                                        [Leaf_Init(fresh, r.page_id, old.parent_page_id_,
                                                   w.leaf_max_size_)
                                            EXCEPT !.next_page_id_ = old.next_page_id_])}})
                 ELSE The({The({[w |-> w1, new_node |-> r.page, split_key |-> im.split_key]
                                : w1 \in {ReparentLoop(
                                             Put(Put(r.w, node, im.node), r.page, im.recipient),
                                             r.page, 0, r.page_id)}})
                           : im \in {Internal_MoveHalfTo(
                                        old, Internal_Init(fresh, r.page_id, old.parent_page_id_,
                                                           w.internal_max_size_))}})
        : r \in {NewPage(w)}})

RECURSIVE InsertIntoParent(_, _, _, _)
InsertIntoParent(w, old_node, key, new_node) ==
    LET old == Data(w, old_node)
        parent_id == old.parent_page_id_
    IN  IF IsRootPage(old)
        \* old_node is the root: a new root above both
        THEN The({
            IF nr.page = NULL THEN nr.w
            ELSE LET root == PopulateNewRoot(
                                 Internal_Init(Data(nr.w, nr.page), nr.page_id, INVALID_PAGE_ID,
                                               w.internal_max_size_),
                                 old.page_id_, key, Data(w, new_node).page_id_)
                     w1 == Put(nr.w, nr.page, root)
                     w2 == SetParentPageId(w1, old_node, nr.page_id)
                     w3 == SetParentPageId(w2, new_node, nr.page_id)
                 IN  UnpinPage(UpdateRootPageId([w3 EXCEPT !.root_page_id_ = nr.page_id]),
                               nr.page_id, TRUE)
            : nr \in {NewPage(w)}})
        \* otherwise: into the existing parent
        ELSE The({
            IF pr.page = NULL THEN pr.w
            ELSE The({
                IF Data(p2, pr.page).size_ >= w.internal_max_size_
                THEN The({
                    IF sp.new_node # NULL
                    THEN The({UnpinPage(UnpinPage(p3, Data(p3, sp.new_node).page_id_, TRUE),
                                        parent_id, TRUE)
                              : p3 \in {InsertIntoParent(sp.w, pr.page, sp.split_key,
                                                         sp.new_node)}})
                    ELSE UnpinPage(sp.w, parent_id, TRUE)
                    : sp \in {Split(p2, pr.page)}})
                ELSE UnpinPage(p2, parent_id, TRUE)
                : p2 \in {SetParentPageId(
                             Put(pr.w, pr.page,
                                 InsertNodeAfter(Data(pr.w, pr.page), old.page_id_, key,
                                                 Data(pr.w, new_node).page_id_)),
                             new_node, parent_id)}})
            : pr \in {FetchPage(w, parent_id)}})

\* variant of InsertIntoLeaf that stores the new value over a key already present
InsertIntoLeaf_Overwrite(w, key, value) ==
    The({
        IF r.page = NULL THEN [w |-> r.w, ret |-> FALSE]
        ELSE LET leaf_page == r.page
                 leaf_id == PageIdOf(r.w, leaf_page)
                 i == Leaf_FindKey(Data(r.w, leaf_page), key, 0)
             IN  IF i # -1
                 THEN [w |-> UnpinPage(Put(r.w, leaf_page,
                                           [Data(r.w, leaf_page)
                                               EXCEPT !.array_[i + 1][2] = value]),
                                       leaf_id, TRUE),
                       ret |-> TRUE]
                 ELSE The({
                     IF ~ins.ret THEN [w |-> UnpinPage(r.w, leaf_id, FALSE), ret |-> FALSE]
                     ELSE IF ins.node.size_ >= w.leaf_max_size_
                     THEN The({
                         IF sp.new_node = NULL
                         THEN [w |-> UnpinPage(sp.w, leaf_id, TRUE), ret |-> FALSE]
                         ELSE The({[w |-> UnpinPage(
                                              UnpinPage(w2, Data(w2, sp.new_node).page_id_, TRUE),
                                              leaf_id, TRUE),
                                    ret |-> TRUE]
                                   : w2 \in {InsertIntoParent(sp.w, leaf_page, sp.split_key,
                                                              sp.new_node)}})
                         : sp \in {Split(Put(r.w, leaf_page, ins.node), leaf_page)}})
                     ELSE [w |-> UnpinPage(Put(r.w, leaf_page, ins.node), leaf_id, TRUE),
                           ret |-> TRUE]
                     : ins \in {Leaf_Insert(Data(r.w, leaf_page), key, value)}})
        : r \in {FindLeafPage(w, key)}})

InsertIntoLeaf(w, key, value) ==
    The({
        IF r.page = NULL THEN [w |-> r.w, ret |-> FALSE]
        ELSE LET leaf_page == r.page
                 leaf_id == PageIdOf(r.w, leaf_page)
             IN  IF Leaf_FindKey(Data(r.w, leaf_page), key, 0) # -1
                 THEN [w |-> UnpinPage(r.w, leaf_id, FALSE), ret |-> FALSE]
                 ELSE The({
                     IF ~ins.ret THEN [w |-> UnpinPage(r.w, leaf_id, FALSE), ret |-> FALSE]
                     ELSE IF ins.node.size_ >= w.leaf_max_size_
                     THEN The({
                         IF sp.new_node = NULL
                         THEN [w |-> UnpinPage(sp.w, leaf_id, TRUE), ret |-> FALSE]
                         ELSE The({[w |-> UnpinPage(
                                              UnpinPage(w2, Data(w2, sp.new_node).page_id_, TRUE),
                                              leaf_id, TRUE),
                                    ret |-> TRUE]
                                   : w2 \in {InsertIntoParent(sp.w, leaf_page, sp.split_key,
                                                              sp.new_node)}})
                         : sp \in {Split(Put(r.w, leaf_page, ins.node), leaf_page)}})
                     ELSE [w |-> UnpinPage(Put(r.w, leaf_page, ins.node), leaf_id, TRUE),
                           ret |-> TRUE]
                     : ins \in {Leaf_Insert(Data(r.w, leaf_page), key, value)}})
        : r \in {FindLeafPage(w, key)}})

Insert(w, key, value) ==
    IF IsEmpty(w) THEN StartNewTree(w, key, value) ELSE InsertIntoLeaf(w, key, value)

FindIndexInParent(w, node) ==
    The({IF r.page = NULL THEN [w |-> Undefined(r.w), ret |-> -1]
         ELSE [w |-> UnpinPage(r.w, Data(r.w, r.page).page_id_, FALSE),
               ret |-> Internal_FindValue(Data(r.w, r.page), Data(r.w, node).page_id_, 0)]
         : r \in {FetchPage(w, Data(w, node).parent_page_id_)}})

\* FindSibling: ret, the sibling's frame and is_prev
FindSibling(w, node) ==
    LET none == [w |-> w, ret |-> FALSE, sibling |-> NULL, is_prev |-> FALSE]
    IN  The({
        IF pr.page = NULL THEN [none EXCEPT !.w = pr.w]
        ELSE The({
            LET index == fi.ret
                parent == Data(fi.w, pr.page)
                parent_id == PageIdOf(fi.w, pr.page)
            IN  IF fi.w.ub THEN [none EXCEPT !.w = fi.w]
                ELSE IF index = -1 THEN [none EXCEPT !.w = UnpinPage(fi.w, parent_id, FALSE)]
                ELSE The({
                    IF index > 0 /\ prev.page # NULL
                    THEN [w |-> UnpinPage(prev.w, parent_id, FALSE), ret |-> TRUE,
                          sibling |-> prev.page, is_prev |-> TRUE]
                    ELSE The({
                        IF index < parent.size_ - 1 /\ next.page # NULL
                        THEN [w |-> UnpinPage(next.w, parent_id, FALSE), ret |-> TRUE,
                              sibling |-> next.page, is_prev |-> FALSE]
                        ELSE [none EXCEPT !.w = UnpinPage(next.w, parent_id, FALSE)]
                        \* the next sibling is fetched only when there is one
                        : next \in {IF index < parent.size_ - 1
                                    THEN FetchPage(prev.w, ValueAt(parent, index + 1))
                                    ELSE [w |-> prev.w, page |-> NULL]}})
                    \* the previous sibling is fetched only when there is one
                    : prev \in {IF index > 0
                                THEN FetchPage(fi.w, ValueAt(parent, index - 1))
                                ELSE [w |-> fi.w, page |-> NULL]}})
            : fi \in {FindIndexInParent(pr.w, node)}})
        : pr \in {FetchPage(w, Data(w, node).parent_page_id_)}})

AdjustRoot(w, old_root_node) ==
    LET old == Data(w, old_root_node)
    IN  IF IsLeafPage(old) /\ old.size_ = 0
        THEN DeletePage(UpdateRootPageId([w EXCEPT !.root_page_id_ = INVALID_PAGE_ID]),
                        old.page_id_)
        ELSE IF ~IsLeafPage(old) /\ old.size_ = 1
        THEN The({
            IF r.page = NULL THEN Undefined(r.w)
            ELSE The({DeletePage(w4, Data(w4, old_root_node).page_id_)
                      : w4 \in {UnpinPage(
                                   UpdateRootPageId(SetParentPageId(r.w, r.page, INVALID_PAGE_ID)),
                                   ValueAt(old, 0), TRUE)}})
            : r \in {FetchPage([w EXCEPT !.root_page_id_ = ValueAt(old, 0)], ValueAt(old, 0))}})
        ELSE w

\* Redistribute without the SetKeyAt on the parent
Redistribute_NoSeparator(w, neighbor_node, node, parent, index) ==
    LET neighbor == Data(w, neighbor_node)
        last_index == neighbor.size_ - 1
    IN  IF ~IsLeafPage(Data(w, node)) THEN w
        ELSE IF index > 0
        THEN IF InRange(neighbor, last_index)
             THEN [Put(w, neighbor_node, Page_RemoveAt(neighbor, last_index))
                      EXCEPT !.b.pages_[node].data_ =
                          Leaf_Insert(@, KeyAt(neighbor, last_index),
                                      ValueAt(neighbor, last_index)).node]
             ELSE Undefined(w)
        ELSE IF InRange(neighbor, 0)
             THEN [Put(w, neighbor_node, Page_RemoveAt(neighbor, 0))
                      EXCEPT !.b.pages_[node].data_ =
                          Leaf_Insert(@, KeyAt(neighbor, 0), ValueAt(neighbor, 0)).node]
             ELSE Undefined(w)

Redistribute(w, neighbor_node, node, parent, index) ==
    LET neighbor == Data(w, neighbor_node)
        last_index == neighbor.size_ - 1
    IN  IF ~IsLeafPage(Data(w, node)) THEN w
        ELSE IF index > 0
        \* borrow the last entry of the left sibling
        THEN IF InRange(neighbor, last_index) /\ InRange(Data(w, parent), index)
             THEN The({Put(l2, parent,
                           Internal_SetKeyAt(Data(l2, parent), index, KeyAt(Data(l2, node), 0)))
                       : l2 \in {[Put(w, neighbor_node, Page_RemoveAt(neighbor, last_index))
                                     EXCEPT !.b.pages_[node].data_ =
                                         Leaf_Insert(@, KeyAt(neighbor, last_index),
                                                     ValueAt(neighbor, last_index)).node]}})
             ELSE Undefined(w)
        \* borrow the first entry of the right sibling
        ELSE IF InRange(neighbor, 0) /\ InRange(Page_RemoveAt(neighbor, 0), 0)
                /\ InRange(Data(w, parent), index + 1)
             THEN The({Put(r2, parent,
                           Internal_SetKeyAt(Data(r2, parent), index + 1,
                                             KeyAt(Data(r2, neighbor_node), 0)))
                       : r2 \in {[Put(w, neighbor_node, Page_RemoveAt(neighbor, 0))
                                     EXCEPT !.b.pages_[node].data_ =
                                         Leaf_Insert(@, KeyAt(neighbor, 0),
                                                     ValueAt(neighbor, 0)).node]}})
             ELSE Undefined(w)

\* the loops of Coalesce that insert node's entries from position i on into the neighbor
RECURSIVE LeafMoveAllLoop(_, _, _)
LeafMoveAllLoop(neighbor, node, i) ==
    IF i >= node.size_ THEN neighbor
    ELSE The({LeafMoveAllLoop(next, node, i + 1)
              : next \in {Leaf_Insert(neighbor, KeyAt(node, i), ValueAt(node, i)).node}})

RECURSIVE InternalMoveAllLoop(_, _, _)
InternalMoveAllLoop(neighbor, node, i) ==
    IF i >= node.size_ THEN neighbor
    ELSE The({InternalMoveAllLoop(next, node, i + 1)
              : next \in {Internal_Insert(neighbor, KeyAt(node, i), ValueAt(node, i)).node}})

RECURSIVE CoalesceOrRedistribute(_, _)
RECURSIVE Coalesce(_, _, _, _, _)
Coalesce(w, neighbor_node, node, parent, index) ==
    LET n == Data(w, node)
        nb == Data(w, neighbor_node)
    IN  IF ~IsLeafPage(n) /\ (~InRange(Data(w, parent), index) \/ ~InRange(n, 0))
        THEN Undefined(w)
        ELSE The({The({The({
                IF c2.ub THEN c2
                ELSE DeletePage(UnpinPage(c2, Data(c2, node).page_id_, TRUE),
                                Data(c2, node).page_id_)
                \* the parent, when it fell below its minimum, is handled first
                : c2 \in {IF Data(c1, parent).size_ < GetMinSize(Data(c1, parent))
                             /\ ~IsRootPage(Data(c1, parent))
                          THEN CoalesceOrRedistribute(c1, parent)
                          ELSE c1}})
                : c1 \in {Put(moved, parent, Page_RemoveAt(Data(moved, parent), index))}})
                : moved \in {
                    IF IsLeafPage(n)
                    THEN Put(w, neighbor_node,
                             [LeafMoveAllLoop(nb, n, 0) EXCEPT !.next_page_id_ = n.next_page_id_])
                    ELSE The({ReparentLoop(b1, node, 0, Data(b1, neighbor_node).page_id_)
                              : b1 \in {Put(w, neighbor_node,
                                            InternalMoveAllLoop(
                                                Internal_Insert(nb, KeyAt(Data(w, parent), index),
                                                                ValueAt(n, 0)).node,
                                                n, 1))}})}})

CoalesceOrRedistribute(w, node) ==
    IF IsRootPage(Data(w, node)) THEN AdjustRoot(w, node)
    ELSE The({
        IF ~fs.ret THEN fs.w
        ELSE The({
            IF pr.page = NULL THEN pr.w
            ELSE The({
                LET sibling == fs.sibling
                    parent == pr.page
                    node_index == fi.ret
                    w1 == fi.w
                    n == Data(w1, node)
                IN  IF w1.ub THEN w1
                    ELSE IF node_index = -1 THEN UnpinPage(w1, PageIdOf(w1, parent), FALSE)
                    ELSE IF n.size_ + Data(w1, sibling).size_
                               <= (IF IsLeafPage(n) THEN w.leaf_max_size_
                                   ELSE w.internal_max_size_)
                    THEN IF fs.is_prev THEN Coalesce(w1, sibling, node, parent, node_index)
                         ELSE Coalesce(w1, node, sibling, parent, node_index - 1)
                    ELSE UnpinPage(Redistribute(w1, sibling, node, parent, node_index),
                                   PageIdOf(w1, parent), TRUE)
                : fi \in {FindIndexInParent(pr.w, node)}})
            : pr \in {FetchPage(fs.w, Data(fs.w, node).parent_page_id_)}})
        : fs \in {FindSibling(w, node)}})

Remove(w, key) ==
    IF IsEmpty(w) THEN w
    ELSE The({
        IF r.page = NULL THEN r.w
        ELSE The({
            IF index = -1 THEN UnpinPage(r.w, PageIdOf(r.w, r.page), FALSE)
            ELSE The({
                IF Data(w1, r.page).size_ < GetMinSize(Data(w1, r.page))
                THEN CoalesceOrRedistribute(w1, r.page)
                ELSE UnpinPage(w1, PageIdOf(w1, r.page), TRUE)
                : w1 \in {Put(r.w, r.page, Page_RemoveAt(Data(r.w, r.page), index))}})
            : index \in {Leaf_FindKey(Data(r.w, r.page), key, 0)}})
        : r \in {FindLeafPage(w, key)}})

(***************************************************************************)
(* IndexIterator and the tree's Begin / End.  leaf_ is the frame of the    *)
(* leaf the iterator keeps pinned.                                         *)
(***************************************************************************)
\* IndexIterator(bpm, leaf, index)
IndexIterator_At(w, leaf, index) ==
    [alive |-> TRUE, buffer_pool_manager_ |-> TRUE, leaf_ |-> leaf, index_ |-> index,
     page_id_ |-> Data(w, leaf).page_id_]

\* the while loop of Begin(): down the first child until a leaf
RECURSIVE BeginLoop(_, _, _)
BeginLoop(w, current_page, current_page_id) ==
    IF IsLeafPage(Data(w, current_page))
    THEN [w |-> w, it |-> IndexIterator_At(w, current_page, 0)]
    ELSE IF ~InRange(Data(w, current_page), 0) THEN [w |-> Undefined(w), it |-> IndexIterator]
    ELSE The({The({IF r.page = NULL THEN [w |-> Undefined(r.w), it |-> IndexIterator]
                   ELSE BeginLoop(r.w, r.page, ValueAt(Data(w, current_page), 0))
                   : r \in {FetchPage(w1, ValueAt(Data(w, current_page), 0))}})
              : w1 \in {UnpinPage(w, current_page_id, FALSE)}})

Begin(w) ==
    IF IsEmpty(w) THEN [w |-> w, it |-> IndexIterator]
    ELSE The({IF r.page = NULL THEN [w |-> Undefined(r.w), it |-> IndexIterator]
              ELSE BeginLoop(r.w, r.page, w.root_page_id_)
              : r \in {FetchPage(w, w.root_page_id_)}})

\* the while loop of Begin(key): the first index whose key is not below key
RECURSIVE Begin_Index(_, _, _)
Begin_Index(leaf, key, index) ==
    IF index < leaf.size_ /\ KeyAt(leaf, index) < key
    THEN Begin_Index(leaf, key, index + 1)
    ELSE index

Begin_Key(w, key) ==
    IF IsEmpty(w) THEN [w |-> w, it |-> IndexIterator]
    ELSE The({IF r.page = NULL THEN [w |-> r.w, it |-> IndexIterator]
              ELSE [w |-> r.w,
                    it |-> IndexIterator_At(r.w, r.page,
                                            Begin_Index(Data(r.w, r.page), key, 0))]
              : r \in {FindLeafPage(w, key)}})

End == IndexIterator

IsEnd(w, it) ==
    \/ it.leaf_ = NULL
    \/ /\ it.index_ >= Data(w, it.leaf_).size_
       /\ Data(w, it.leaf_).next_page_id_ = INVALID_PAGE_ID

\* operator* without the check of index_ against the leaf's size: the slot past the
\* live entries is returned (zeroed bytes)
Deref_Unchecked(w, it) ==
    IF it.leaf_ = NULL THEN [thrown |-> TRUE, item |-> <<>>]
    ELSE IF it.index_ >= Data(w, it.leaf_).size_
    THEN [thrown |-> FALSE, item |-> <<<<InvalidKey, 0>>>>]
    ELSE [thrown |-> FALSE, item |-> <<Data(w, it.leaf_).array_[it.index_ + 1]>>]

\* operator*: a runtime_error is thrown, or the item at index_ is returned
Deref(w, it) ==
    IF it.leaf_ = NULL THEN [thrown |-> TRUE, item |-> <<>>]
    ELSE IF it.index_ >= Data(w, it.leaf_).size_ THEN [thrown |-> TRUE, item |-> <<>>]
    ELSE [thrown |-> FALSE, item |-> <<Data(w, it.leaf_).array_[it.index_ + 1]>>]

\* operator++
Advance(w, it) ==
    IF it.leaf_ = NULL THEN [w |-> w, it |-> it]
    ELSE LET leaf == Data(w, it.leaf_)
             next_page_id == leaf.next_page_id_
         IN  IF it.index_ + 1 < leaf.size_
             THEN [w |-> w, it |-> [it EXCEPT !.index_ = @ + 1]]
             ELSE The({
                 IF next_page_id = INVALID_PAGE_ID
                 THEN [w |-> w1,
                       it |-> [it EXCEPT !.leaf_ = NULL, !.index_ = 0,
                                         !.page_id_ = INVALID_PAGE_ID]]
                 ELSE The({
                     IF r.page = NULL
                     THEN [w |-> Undefined(r.w),
                           it |-> [it EXCEPT !.leaf_ = NULL, !.index_ = 0,
                                             !.page_id_ = next_page_id]]
                     ELSE [w |-> r.w,
                           it |-> [it EXCEPT !.leaf_ = r.page, !.index_ = 0,
                                             !.page_id_ = next_page_id]]
                     : r \in {FetchPage(w1, next_page_id)}})
                 : w1 \in {UnpinPage(w, it.page_id_, FALSE)}})

\* operator==
Equals(it, itr) ==
    IF it.leaf_ = NULL /\ itr.leaf_ = NULL THEN TRUE
    ELSE IF it.leaf_ = NULL \/ itr.leaf_ = NULL THEN FALSE
    ELSE it.page_id_ = itr.page_id_ /\ it.index_ = itr.index_

\* ~IndexIterator
Destroy(w, it) ==
    IF it.leaf_ # NULL /\ it.buffer_pool_manager_ THEN UnpinPage(w, it.page_id_, FALSE) ELSE w

(***************************************************************************)
(* Specifications of the tree.  One thread calls the tree (the tree takes  *)
(* no latch of its own); every call runs to its return.  The pool is large *)
(* enough for every page the bounded behaviours allocate, and the caller   *)
(* has created the header page (page 0) and keeps it pinned.  model is the *)
(* map a caller expects: what the calls that returned true have stored.    *)
(* A behaviour is followed until the first read outside the live entries   *)
(* of a page (ub).                                                         *)
(***************************************************************************)
LeafSizes == 3..MaxLeafSize

InternalSizes == 3..MaxInternalSize

Keys == 1..MaxKey

\* the value the n-th call stores under key: never the value an earlier call stored
ValueFor(key, n) == 10 * n + key

InitTree ==
    /\ bpm = NewPgImp(BPM_New(TreePoolSize, ReplacerK)).b
    /\ \E l \in LeafSizes, i \in InternalSizes :
          tree = [root_page_id_ |-> INVALID_PAGE_ID, leaf_max_size_ |-> l,
                  internal_max_size_ |-> i, ub |-> FALSE]
    /\ last = [op |-> "init", n |-> 0]
    /\ model = EmptyMap
    /\ iter = NoIterator
    /\ replacer = NoReplacer
    /\ table = NoTable
    /\ threads = NoThreads

DoInsert(key) ==
    \E r \in {Insert(World(bpm, tree), key, ValueFor(key, last.n + 1))} :
        /\ bpm' = r.w.b
        /\ tree' = TreeOf(r.w)
        /\ last' = [op |-> "Insert", key |-> key, value |-> ValueFor(key, last.n + 1),
                    ret |-> r.ret, n |-> last.n + 1, stored |-> key \in DOMAIN model,
                    nil |-> r.w.nil]
        /\ model' = IF r.ret THEN MapPut(model, key, ValueFor(key, last.n + 1)) ELSE model
        /\ UNCHANGED <<iter, replacer, table, threads>>

DoRemove(key) ==
    \E w \in {Remove(World(bpm, tree), key)} :
        /\ bpm' = w.b
        /\ tree' = TreeOf(w)
        /\ last' = [op |-> "Remove", key |-> key, n |-> last.n + 1,
                    stored |-> key \in DOMAIN model]
        /\ model' = MapDel(model, key)
        /\ UNCHANGED <<iter, replacer, table, threads>>

DoGetValue(key) ==
    \E r \in {GetValue(World(bpm, tree), key)} :
        /\ bpm' = r.w.b
        /\ tree' = TreeOf(r.w)
        /\ last' = [op |-> "GetValue", key |-> key, ret |-> r.ret, result |-> r.result,
                    n |-> last.n + 1, stored |-> key \in DOMAIN model]
        /\ UNCHANGED <<model, iter, replacer, table, threads>>

\* insert-only behaviours: any key, stored or not, in any order
TreeInsert ==
    /\ ~tree.ub
    /\ last.n < MaxInsOps
    /\ \E key \in Keys : DoInsert(key)

TreeGetValue ==
    /\ ~tree.ub
    /\ last.n < MaxInsOps
    /\ last.op # "GetValue"
    /\ \E key \in Keys : DoGetValue(key)

NextIns == TreeInsert \/ TreeGetValue

SpecIns == InitTree /\ [][NextIns]_vars

\* behaviours with removes: a caller inserts keys it has not stored and removes keys
\* it has stored
TreeInsertAbsent ==
    /\ ~tree.ub
    /\ last.n < MaxOps
    /\ \E key \in Keys \ DOMAIN model : DoInsert(key)

TreeRemoveStored ==
    /\ ~tree.ub
    /\ last.n < MaxOps
    /\ \E key \in Keys \cap DOMAIN model : DoRemove(key)

NextTree == TreeInsertAbsent \/ TreeRemoveStored

SpecTree == InitTree /\ [][NextTree]_vars

(***************************************************************************)
(* Scenario: keys 1, 2, ... are inserted in ascending order and then, from *)
(* any point on, removed in ascending order.                               *)
(***************************************************************************)
ScenarioKeys == 1..10

InitScenario ==
    /\ bpm = NewPgImp(BPM_New(ScenarioPoolSize, ReplacerK)).b
    /\ \E l \in LeafSizes, i \in InternalSizes :
          tree = [root_page_id_ |-> INVALID_PAGE_ID, leaf_max_size_ |-> l,
                  internal_max_size_ |-> i, ub |-> FALSE]
    /\ last = [op |-> "init", n |-> 0]
    /\ model = EmptyMap
    /\ iter = NoIterator
    /\ replacer = NoReplacer
    /\ table = NoTable
    /\ threads = NoThreads

\* keys inserted and keys removed so far
ScenarioInserted == IF last.op = "Remove" THEN last.n - last.key ELSE last.n

ScenarioRemoved == IF last.op = "Remove" THEN last.key ELSE 0

ScenarioInsert ==
    /\ ~tree.ub
    /\ last.op # "Remove"
    /\ last.n + 1 \in ScenarioKeys
    /\ DoInsert(last.n + 1)

ScenarioRemove ==
    /\ ~tree.ub
    /\ ScenarioRemoved < ScenarioInserted
    /\ DoRemove(ScenarioRemoved + 1)

NextScenario == ScenarioInsert \/ ScenarioRemove

SpecScenario == InitScenario /\ [][NextScenario]_vars

(***************************************************************************)
(* Insert-only behaviours on a pool of few frames: the header page stays   *)
(* pinned by the caller, so an insert that splits a leaf, splits an        *)
(* internal page or creates a root can be handed nullptr by NewPage.       *)
(***************************************************************************)
SmallPools == 2..MaxSmallPool

InitSmall ==
    /\ \E n \in SmallPools : bpm = NewPgImp(BPM_New(n, ReplacerK)).b
    /\ \E l \in LeafSizes, i \in InternalSizes :
          tree = [root_page_id_ |-> INVALID_PAGE_ID, leaf_max_size_ |-> l,
                  internal_max_size_ |-> i, ub |-> FALSE]
    /\ last = [op |-> "init", n |-> 0]
    /\ model = EmptyMap
    /\ iter = NoIterator
    /\ replacer = NoReplacer
    /\ table = NoTable
    /\ threads = NoThreads

SmallInsert ==
    /\ ~tree.ub
    /\ last.n < MaxInsOps
    /\ \E key \in Keys : DoInsert(key)

SmallGetValue ==
    /\ ~tree.ub
    /\ last.n < MaxInsOps
    /\ last.op # "GetValue"
    /\ \E key \in Keys : DoGetValue(key)

NextSmall == SmallInsert \/ SmallGetValue

SpecSmall == InitSmall /\ [][NextSmall]_vars

(***************************************************************************)
(* Iteration: the caller builds a tree by inserts and removes, then makes  *)
(* one iterator.  An iterator from begin() is used the way a scan loop     *)
(* does, an advance following a dereference that returned an item; an      *)
(* iterator from begin(key) or end() is dereferenced where it stands.  The *)
(* caller may also advance an iterator whose leaf_ is null.  The iterator  *)
(* is destroyed right after it was made, or when its use is over.  The     *)
(* tree is not changed while the iterator lives.  yielded lists the keys   *)
(* the dereferences have returned.                                         *)
(***************************************************************************)
BuildOps == {"init", "Insert", "Remove"}

\* the keys begin(key) is called with: every key, and one above all of them
IterKeys == 1..(MaxKey + 1)

\* the trees walked have leaves and internal pages of the same maximum size
InitIter ==
    /\ bpm = NewPgImp(BPM_New(TreePoolSize, ReplacerK)).b
    /\ \E l \in LeafSizes \cap InternalSizes :
          tree = [root_page_id_ |-> INVALID_PAGE_ID, leaf_max_size_ |-> l,
                  internal_max_size_ |-> l, ub |-> FALSE]
    /\ last = [op |-> "init", n |-> 0]
    /\ model = EmptyMap
    /\ iter = NoIterator
    /\ replacer = NoReplacer
    /\ table = NoTable
    /\ threads = NoThreads

IterInsert ==
    /\ ~tree.ub
    /\ last.op \in BuildOps
    /\ last.n < MaxIterOps
    /\ \E key \in Keys \ DOMAIN model : DoInsert(key)

IterRemove ==
    /\ ~tree.ub
    /\ last.op \in BuildOps
    /\ last.n < MaxIterOps
    /\ \E key \in Keys \cap DOMAIN model : DoRemove(key)

IterBegin ==
    /\ ~tree.ub
    /\ last.op \in BuildOps
    /\ \E r \in {Begin(World(bpm, tree))} :
          /\ bpm' = r.w.b
          /\ tree' = TreeOf(r.w)
          /\ iter' = r.it
          /\ last' = [op |-> "Begin", from |-> "Begin", key |-> 0, n |-> last.n,
                      yielded |-> <<>>, thrown |-> FALSE]
    /\ UNCHANGED <<model, replacer, table, threads>>

IterBeginKey ==
    /\ ~tree.ub
    /\ last.op \in BuildOps
    /\ \E key \in IterKeys :
          \E r \in {Begin_Key(World(bpm, tree), key)} :
              /\ bpm' = r.w.b
              /\ tree' = TreeOf(r.w)
              /\ iter' = r.it
              /\ last' = [op |-> "Begin", from |-> "Begin_Key", key |-> key, n |-> last.n,
                          yielded |-> <<>>, thrown |-> FALSE]
    /\ UNCHANGED <<model, replacer, table, threads>>

IterEnd ==
    /\ ~tree.ub
    /\ last.op \in BuildOps
    /\ iter' = End
    /\ last' = [op |-> "Begin", from |-> "End", key |-> 0, n |-> last.n,
                yielded |-> <<>>, thrown |-> FALSE]
    /\ UNCHANGED <<bpm, tree, model, replacer, table, threads>>

IterDeref ==
    /\ ~tree.ub
    /\ iter.alive
    /\ last.op \in {"Begin", "Advance"}
    /\ \E r \in {Deref(World(bpm, tree), iter)} :
          last' = [last EXCEPT !.op = "Deref", !.thrown = r.thrown,
                               !.yielded = IF r.thrown THEN @ ELSE Append(@, r.item[1][1])]
    /\ UNCHANGED <<bpm, tree, model, iter, replacer, table, threads>>

IterAdvance ==
    /\ ~tree.ub
    /\ iter.alive
    /\ \/ last.op = "Deref" /\ ~last.thrown /\ last.from = "Begin"
       \/ iter.leaf_ = NULL
    /\ \E r \in {Advance(World(bpm, tree), iter)} :
          /\ bpm' = r.w.b
          /\ tree' = TreeOf(r.w)
          /\ iter' = r.it
          /\ last' = [last EXCEPT !.op = "Advance", !.thrown = FALSE]
    /\ UNCHANGED <<model, replacer, table, threads>>

IterDestroy ==
    /\ ~tree.ub
    /\ iter.alive
    /\ \/ last.op = "Begin"
       \/ last.op = "Deref" /\ (last.thrown \/ last.from # "Begin")
       \/ iter.leaf_ = NULL
    /\ \E w \in {Destroy(World(bpm, tree), iter)} :
          /\ bpm' = w.b
          /\ tree' = TreeOf(w)
    /\ iter' = NoIterator
    /\ last' = [last EXCEPT !.op = "Destroy", !.thrown = FALSE]
    /\ UNCHANGED <<model, replacer, table, threads>>

NextIter ==
    \/ IterInsert
    \/ IterRemove
    \/ IterBegin
    \/ IterBeginKey
    \/ IterEnd
    \/ IterDeref
    \/ IterAdvance
    \/ IterDestroy

SpecIter == InitIter /\ [][NextIter]_vars

(***************************************************************************)
(* Views of the tree used by the properties.  PageImage is what a fetch of *)
(* the page would hand out: the resident bytes, else the bytes on disk.    *)
(***************************************************************************)
PageImage(b, page_id) ==
    IF Resident(b, page_id) THEN b.pages_[FrameOf(b, page_id)].data_
    ELSE Disk_ReadPage(b.disk, page_id)

\* the pages reachable from page_id through child pointers, down to depth fuel
RECURSIVE Reachable(_, _, _)
Reachable(b, page_id, fuel) ==
    LET node == PageImage(b, page_id)
    IN  IF IsLeafPage(node) \/ fuel = 0 THEN {page_id}
        ELSE {page_id} \cup UNION {Reachable(b, ValueAt(node, i), fuel - 1) : i \in 0..(node.size_ - 1)}

TreePagesOf(b, t) ==
    IF t.root_page_id_ = INVALID_PAGE_ID THEN {} ELSE Reachable(b, t.root_page_id_, MaxDepth)

TreePages == TreePagesOf(bpm, tree)

\* the image of every page of the tree
TreeImage(b, t) == [p \in TreePagesOf(b, t) |-> PageImage(b, p)]

Node(page_id) == PageImage(bpm, page_id)

\* the depths at which the walk from page_id ends: at a leaf, or at a page without children
RECURSIVE LeafDepths(_, _, _)
LeafDepths(page_id, depth, fuel) ==
    LET node == Node(page_id)
    IN  IF IsLeafPage(node) \/ fuel = 0 \/ node.size_ = 0 THEN {depth}
        ELSE UNION {LeafDepths(ValueAt(node, i), depth + 1, fuel - 1) : i \in 0..(node.size_ - 1)}

\* the keys stored in the leaves below page_id
RECURSIVE SubtreeKeys(_, _)
SubtreeKeys(page_id, fuel) ==
    LET node == Node(page_id)
    IN  IF IsLeafPage(node) THEN {KeyAt(node, i) : i \in 0..(node.size_ - 1)}
        ELSE IF fuel = 0 THEN {}
        ELSE UNION {SubtreeKeys(ValueAt(node, i), fuel - 1) : i \in 0..(node.size_ - 1)}

\* the leftmost leaf, as Begin() descends to it
RECURSIVE LeftmostLeaf(_, _)
LeftmostLeaf(page_id, fuel) ==
    LET node == Node(page_id)
    IN  IF IsLeafPage(node) \/ fuel = 0 \/ node.size_ = 0 THEN page_id
        ELSE LeftmostLeaf(ValueAt(node, 0), fuel - 1)

\* the page ids met by following next_page_id_ from page_id, up to INVALID_PAGE_ID or to
\* a page that is not a leaf
RECURSIVE LeafChain(_, _)
LeafChain(page_id, fuel) ==
    IF page_id = INVALID_PAGE_ID \/ fuel = 0 THEN <<page_id>>
    ELSE IF ~IsLeafPage(Node(page_id)) THEN <<page_id>>
    ELSE <<page_id>> \o LeafChain(Node(page_id).next_page_id_, fuel - 1)

RECURSIVE ChainKeys(_, _)
ChainKeys(chain, i) ==
    IF i > Len(chain) THEN <<>>
    ELSE IF chain[i] = INVALID_PAGE_ID \/ ~IsLeafPage(Node(chain[i])) THEN ChainKeys(chain, i + 1)
    ELSE [j \in 1..Node(chain[i]).size_ |-> KeyAt(Node(chain[i]), j - 1)] \o ChainKeys(chain, i + 1)

StrictlyAscending(seq) == \A i \in 1..(Len(seq) - 1) : seq[i] < seq[i + 1]

NoRepeat(seq) == \A i, j \in 1..Len(seq) : i # j => seq[i] # seq[j]

\* what get_value(key) returns in the current state
Lookup(key) == GetValue(World(bpm, tree), key)

(***************************************************************************)
(* Properties of the buffer pool                                           *)
(***************************************************************************)
EvictedFrames(io) == {io[i].frame : i \in {j \in 1..Len(io) : io[j].ev = "evict"}}

C4_DirtyEvictionOrdering ==
    [][last'.op \in {"NewPage", "FetchPage"} =>
          \A i \in 1..Len(bpm'.io) :
              bpm'.io[i].ev = "evict" =>
                  LET f == bpm'.io[i].frame
                      victim == bpm.pages_[f]
                  IN  /\ bpm'.pages_[f].page_id_ = last'.page_id
                      /\ IF victim.is_dirty_
                         THEN \E j, k \in 1..Len(bpm'.io) :
                                  /\ i < j /\ j < k
                                  /\ bpm'.io[j].ev = "write"
                                  /\ bpm'.io[j].page = victim.page_id_
                                  /\ bpm'.io[j].data = victim.data_
                                  /\ bpm'.io[k].ev = "reset"
                                  /\ bpm'.io[k].frame = f
                         ELSE \A j \in 1..Len(bpm'.io) : bpm'.io[j].ev # "write"]_vars

\* C4 witness: the last call evicted a dirty page
C4_Witness ==
    /\ last.op \in {"NewPage", "FetchPage"}
    /\ \E i \in 1..Len(bpm.io) : bpm.io[i].ev = "evict" /\ bpm.io[i].dirty

\* the frames the replacer tracks, and those of them that are evictable
Tracked(b) == DOMAIN b.replacer_.frame_table_

Evictable(b) == {f \in Tracked(b) : b.replacer_.frame_table_[f].is_evictable_}

\* C15: after every public call, |free_list| + |frames tracked by the replacer| =
\* pool_size, every frame is either once in the free list or tracked (evictable or
\* not), a tracked frame that is not evictable holds a page with pin count >= 1 and an
\* evictable frame holds a page with pin count 0.
C15_FrameAccounting ==
    /\ Len(bpm.free_list_) + Cardinality(Tracked(bpm)) = bpm.pool_size_
    /\ NoRepeat(bpm.free_list_)
    /\ Range(bpm.free_list_) \cap Tracked(bpm) = {}
    /\ Range(bpm.free_list_) \cup Tracked(bpm) = Frames(bpm)
    /\ Cardinality(Evictable(bpm)) = LRUK_Size(bpm.replacer_)
    /\ \A f \in Tracked(bpm) :
          /\ bpm.pages_[f].page_id_ # INVALID_PAGE_ID
          /\ IF f \in Evictable(bpm) THEN bpm.pages_[f].pin_count_ = 0
             ELSE bpm.pages_[f].pin_count_ >= 1

\* delete_page has given a frame back while another frame holds a pinned page
C15_Witness ==
    /\ last.op = "DeletePage"
    /\ bpm.io # <<>>
    /\ bpm.free_list_ # <<>>
    /\ \E f \in Tracked(bpm) : bpm.pages_[f].pin_count_ >= 1

\* the page ids that have an entry in the page table
PageTableKeys(ht) ==
    UNION {{ht.buckets[i].list_[j][1] : j \in 1..Len(ht.buckets[i].list_)}
           : i \in Range(ht.dir_)}

\* C16: after every public call the page table maps page p to frame f exactly when
\* frame f holds page p; no page id is held by two frames, and the page table has no
\* entry for a page that was evicted or deleted.
C16_DirectoryExact ==
    /\ \A p \in PageIds, f \in Frames(bpm) :
          (Resident(bpm, p) /\ FrameOf(bpm, p) = f) <=> bpm.pages_[f].page_id_ = p
    /\ \A f, g \in Frames(bpm) :
          (f # g /\ bpm.pages_[f].page_id_ # INVALID_PAGE_ID) =>
              bpm.pages_[f].page_id_ # bpm.pages_[g].page_id_
    /\ PageTableKeys(bpm.page_table_) = ResidentIds(bpm)

\* new_page has evicted a page: the victim has no entry any more and the new page
\* has one
C16_Witness ==
    /\ last.op = "NewPage"
    /\ last.ret # NULL
    /\ Resident(bpm, last.page_id)
    /\ \E i \in 1..Len(bpm.io) : bpm.io[i].ev = "evict" /\ ~Resident(bpm, bpm.io[i].page)

\* the page of frame f is in no frame after the step
Leaves(f) ==
    /\ bpm.pages_[f].page_id_ # INVALID_PAGE_ID
    /\ \A g \in Frames(bpm) : bpm'.pages_[g].page_id_ # bpm.pages_[f].page_id_

\* the call wrote the page and bytes of frame f and reset the frame afterwards
WrittenBeforeReset(f) ==
    \E j, k \in 1..Len(bpm'.io) :
        /\ j < k
        /\ bpm'.io[j] = EvWrite(bpm.pages_[f].page_id_, bpm.pages_[f].data_)
        /\ bpm'.io[k] = EvReset(f)

\* C17 as claimed: whenever a dirty page stops being resident, by eviction in new_page /
\* fetch_page or by delete_page, its bytes were handed to WritePage before the frame
\* was zeroed or reused.
C17_NoSilentLoss ==
    [][\A f \in Frames(bpm) :
          (Leaves(f) /\ bpm.pages_[f].is_dirty_) => WrittenBeforeReset(f)]_vars

\* C17 amended: a dirty page that new_page or fetch_page evicts is written, page id and
\* bytes, before its frame is reset; delete_page of a dirty page resets the frame and
\* writes nothing, the bytes of the deleted page are dropped.
C17_NoSilentLoss_Amended ==
    [][\A f \in Frames(bpm) :
          (Leaves(f) /\ bpm.pages_[f].is_dirty_) =>
              IF last'.op = "DeletePage"
              THEN /\ last'.page_id = bpm.pages_[f].page_id_
                   /\ bpm'.io = <<EvReset(f)>>
                   /\ bpm'.disk = bpm.disk
              ELSE /\ last'.op \in {"NewPage", "FetchPage"}
                   /\ WrittenBeforeReset(f)]_vars

\* delete_page has dropped a dirty page whose bytes are not on disk
C17_Witness ==
    /\ last.op = "DeletePage"
    /\ last.ret
    /\ last.dirty
    /\ bpm.io # <<>>
    /\ ~Resident(bpm, last.page_id)
    /\ last.page_id \notin DOMAIN bpm.disk

\* the pool without the log of the call in progress
Quiet(b) == [b EXCEPT !.io = <<>>]

\* C18: new_page, and fetch_page of a page that is not resident, return nullptr exactly
\* when the free list is empty and no frame is evictable (then every frame holds a
\* pinned page); a call that returns nullptr changes nothing: pin counts, dirty flags,
\* page table, free list, replacer and next page id stay as they were.
C18_PoolExhaustion ==
    [][(\/ last'.op = "NewPage"
        \/ last'.op = "FetchPage" /\ ~Resident(bpm, last'.page_id)) =>
          LET exhausted == bpm.free_list_ = <<>> /\ Evictable(bpm) = {}
          IN  /\ (last'.ret = NULL) <=> exhausted
              /\ exhausted => \A f \in Frames(bpm) :
                                  /\ bpm.pages_[f].page_id_ # INVALID_PAGE_ID
                                  /\ bpm.pages_[f].pin_count_ >= 1
              /\ last'.ret = NULL => Quiet(bpm') = Quiet(bpm)]_vars

\* fetch_page of a page that was evicted found every frame pinned
C18_Witness ==
    /\ last.op = "FetchPage"
    /\ last.ret = NULL
    /\ ~Resident(bpm, last.page_id)
    /\ last.page_id \in 0..(bpm.next_page_id_ - 1)

\* C19: unpin_page(p, d) returns false and changes nothing when p is not resident or
\* its pin count is 0; otherwise it returns true, the pin count of p drops by exactly
\* 1 and its frame is evictable afterwards exactly when the pin count reached 0.  No
\* pin count is ever negative.
C19_UnpinResult ==
    [][/\ \A f \in Frames(bpm') : bpm'.pages_[f].pin_count_ >= 0
       /\ last'.op = "UnpinPage" =>
             LET p == last'.page_id
                 f == FrameOf(bpm, p)
             IN  IF ~Resident(bpm, p) \/ bpm.pages_[f].pin_count_ = 0
                 THEN /\ last'.ret = FALSE
                      /\ Quiet(bpm') = Quiet(bpm)
                 ELSE /\ last'.ret = TRUE
                      /\ bpm'.pages_[f].page_id_ = p
                      /\ bpm'.pages_[f].pin_count_ = bpm.pages_[f].pin_count_ - 1
                      /\ (f \in Evictable(bpm')) <=> (bpm'.pages_[f].pin_count_ = 0)
                      /\ \A g \in Frames(bpm) \ {f} : bpm'.pages_[g] = bpm.pages_[g]]_vars

\* unpin_page returned true and the page is still pinned by another holder
C19_Witness ==
    /\ last.op = "UnpinPage"
    /\ last.ret
    /\ Resident(bpm, last.page_id)
    /\ bpm.pages_[FrameOf(bpm, last.page_id)].pin_count_ >= 1
    /\ FrameOf(bpm, last.page_id) \notin Evictable(bpm)

\* C20: the dirty flag of a resident page is set only by a successful
\* unpin_page(p, true); once set it stays set through unpin_page(p, false) and
\* fetch_page(p) and is cleared only by flush_page(p), flush_all_pages or by p leaving
\* the pool; a page that enters a frame is clean.
C20_StickyDirty ==
    [][\A f \in Frames(bpm) :
          LET p == bpm.pages_[f].page_id_
              stays == p # INVALID_PAGE_ID /\ bpm'.pages_[f].page_id_ = p
          IN  /\ (stays /\ bpm.pages_[f].is_dirty_ /\ ~bpm'.pages_[f].is_dirty_) =>
                     \/ last'.op = "FlushPage" /\ last'.page_id = p /\ last'.ret
                     \/ last'.op = "FlushAllPages"
              /\ (stays /\ ~bpm.pages_[f].is_dirty_ /\ bpm'.pages_[f].is_dirty_) =>
                     /\ last'.op = "UnpinPage"
                     /\ last'.page_id = p
                     /\ last'.is_dirty
                     /\ last'.ret
              /\ (last'.op = "UnpinPage" /\ last'.page_id = p /\ last'.is_dirty
                  /\ last'.ret /\ p # INVALID_PAGE_ID) => bpm'.pages_[f].is_dirty_
              /\ (bpm'.pages_[f].page_id_ # p /\ bpm'.pages_[f].page_id_ # INVALID_PAGE_ID) =>
                     ~bpm'.pages_[f].is_dirty_]_vars

\* a dirty page was unpinned with is_dirty = false and is still dirty
C20_Witness ==
    /\ last.op = "UnpinPage"
    /\ last.ret
    /\ ~last.is_dirty
    /\ Resident(bpm, last.page_id)
    /\ bpm.pages_[FrameOf(bpm, last.page_id)].is_dirty_

\* C21: flush_page(p) of a resident page issues exactly one write_page(p, bytes of
\* the frame), dirty or clean, clears the dirty flag and returns true; pin count,
\* residence, free list and replacer stay as they were.  For a page that is not
\* resident it returns false and issues no write.
C21_FlushPage ==
    [][last'.op = "FlushPage" =>
          LET p == last'.page_id
              f == FrameOf(bpm, p)
          IN  IF Resident(bpm, p)
              THEN /\ last'.ret = TRUE
                   /\ bpm'.io = <<EvWrite(p, bpm.pages_[f].data_)>>
                   /\ bpm'.disk = MapPut(bpm.disk, p, bpm.pages_[f].data_)
                   /\ bpm'.pages_ = [bpm.pages_ EXCEPT ![f].is_dirty_ = FALSE]
                   /\ [Quiet(bpm') EXCEPT !.disk = EmptyMap, !.pages_ = <<>>]
                         = [Quiet(bpm) EXCEPT !.disk = EmptyMap, !.pages_ = <<>>]
              ELSE /\ last'.ret = FALSE
                   /\ bpm'.io = <<>>
                   /\ Quiet(bpm') = Quiet(bpm)]_vars

\* flush_page has written a page that was clean
C21_Witness ==
    /\ last.op = "FlushPage"
    /\ last.ret
    /\ ~last.dirty
    /\ Len(bpm.io) = 1
    /\ bpm.io[1].ev = "write"
    /\ bpm.io[1].page = last.page_id

\* C22: delete_page(p) returns true and changes nothing when p is not resident;
\* returns false and changes nothing when p is resident and pinned; when p is
\* resident with pin count 0 it returns true, p leaves the page table, the frame
\* leaves the replacer, the frame is reset (page id INVALID, pin 0, clean) and is
\* appended to the free list.
C22_DeletePage ==
    [][last'.op = "DeletePage" =>
          LET p == last'.page_id
              f == FrameOf(bpm, p)
          IN  IF ~Resident(bpm, p)
              THEN last'.ret = TRUE /\ Quiet(bpm') = Quiet(bpm)
              ELSE IF bpm.pages_[f].pin_count_ > 0
              THEN last'.ret = FALSE /\ Quiet(bpm') = Quiet(bpm)
              ELSE /\ last'.ret = TRUE
                   /\ ~Resident(bpm', p)
                   /\ PageTableKeys(bpm'.page_table_) = PageTableKeys(bpm.page_table_) \ {p}
                   /\ f \notin DOMAIN bpm'.replacer_.frame_table_
                   /\ DOMAIN bpm'.replacer_.frame_table_
                         = DOMAIN bpm.replacer_.frame_table_ \ {f}
                   /\ bpm'.pages_[f].page_id_ = INVALID_PAGE_ID
                   /\ bpm'.pages_[f].pin_count_ = 0
                   /\ ~bpm'.pages_[f].is_dirty_
                   /\ bpm'.pages_[f].data_ = ZeroPage
                   /\ bpm'.free_list_ = Append(bpm.free_list_, f)
                   /\ \A g \in Frames(bpm) \ {f} : bpm'.pages_[g] = bpm.pages_[g]]_vars

\* delete_page has taken an unpinned resident page out of the pool
C22_Witness ==
    /\ last.op = "DeletePage"
    /\ last.ret
    /\ Len(bpm.io) = 1
    /\ bpm.io[1].ev = "reset"
    /\ bpm.free_list_ # <<>>
    /\ bpm.free_list_[Len(bpm.free_list_)] = bpm.io[1].frame
    /\ ~Resident(bpm, last.page_id)

(***************************************************************************)
(* Properties of the replacer                                              *)
(***************************************************************************)
\* K-distance of a frame from every access recorded for it: SIZE_MAX stands for
\* +infinity, else the time since the K-th most recent access
KDistance(r, hist) ==
    IF Len(hist) < r.k_ THEN SIZE_MAX
    ELSE r.current_timestamp_ - hist[Len(hist) - r.k_ + 1]

\* the oldest of the (at most K) most recent accesses
OldestRetained(r, hist) == IF Len(hist) < r.k_ THEN hist[1] ELSE hist[Len(hist) - r.k_ + 1]

\* C23: evict() returns none exactly when no tracked frame is evictable; otherwise
\* the victim is an evictable frame of maximal K-distance (+infinity with fewer than
\* K accesses, else current time minus the K-th most recent access), among several
\* frames of K-distance +infinity the one with the smallest oldest retained
\* timestamp; the victim's record is dropped and size() decreases by 1.
C23_VictimSelection ==
    [][last'.op = "Evict" =>
          LET E == EvictableFrames(replacer)
              v == last'.frame_id
          IN  /\ (~last'.ret) <=> (E = {})
              /\ ~last'.ret => replacer' = replacer
              /\ last'.ret =>
                    /\ v \in E
                    /\ \A g \in E : KDistance(replacer, model[g]) <= KDistance(replacer, model[v])
                    /\ \A g \in E :
                          (/\ KDistance(replacer, model[g]) = SIZE_MAX
                           /\ KDistance(replacer, model[v]) = SIZE_MAX) =>
                              OldestRetained(replacer, model[v])
                                 <= OldestRetained(replacer, model[g])
                    /\ replacer'.frame_table_ = MapDel(replacer.frame_table_, v)
                    /\ LRUK_Size(replacer') = LRUK_Size(replacer) - 1]_vars

\* evict() passed over a frame with K accesses and returned a frame with fewer
C23_Witness ==
    /\ last.op = "Evict"
    /\ last.ret
    /\ \A c \in last.among : c[1] < replacer.replacer_size_
    /\ \E c \in last.among : c[1] = last.frame_id /\ c[2] < replacer.k_
    /\ \E c \in last.among : c[2] >= replacer.k_

\* C24: size() is the number of tracked frames whose evictable flag is set; a newly
\* tracked frame is not evictable; set_evictable with the flag's current value, or on
\* a frame that is not tracked, changes nothing.
C24_ReplacerSize ==
    [][/\ LRUK_Size(replacer') = Cardinality(EvictableFrames(replacer'))
       /\ \A f \in DOMAIN replacer'.frame_table_ \ DOMAIN replacer.frame_table_ :
             ~replacer'.frame_table_[f].is_evictable_
       /\ (/\ last'.op = "SetEvictable"
           /\ \/ last'.frame_id \notin DOMAIN replacer.frame_table_
              \/ replacer.frame_table_[last'.frame_id].is_evictable_ = last'.set_evictable)
             => replacer' = replacer]_vars

\* set_evictable(f, true) was called on a frame that is already evictable
C24_Witness ==
    /\ last.op = "SetEvictable"
    /\ last.set_evictable
    /\ last.frame_id \in EvictableFrames(replacer)
    /\ LRUK_Size(replacer) = 2
    /\ DOMAIN replacer.frame_table_ = 0..(replacer.replacer_size_ - 1)

\* C25: record_access(f) with f >= pool size, f = pool size included, is rejected:
\* no record is created, no history changes, the timestamp counter does not advance.
C25_BoundCheck ==
    [][(last'.op = "RecordAccess" /\ last'.frame_id >= replacer.replacer_size_)
          => replacer' = replacer]_vars

\* C26: Scenario A: pool size 7, K = 2, accesses 1,2,3,4,5,6,1,2,3,4,5,6, all
\* frames marked evictable: evict() returns frame 7.
C26_ScenarioA == last.op = "Evict" => (last.ret /\ last.frame_id = 7)

\* C26 as the replacer has it: evict() returns frame 1, the frame whose K-th most
\* recent access is the oldest; frame 7 was never accessed and is not tracked, and
\* the five other frames stay tracked and evictable.
C26_ScenarioA_Amended ==
    last.op = "Evict" =>
        /\ last.ret
        /\ last.frame_id = 1
        /\ last.among = {<<f, 2>> : f \in 1..6}
        /\ EvictableFrames(replacer) = 2..6
        /\ LRUK_Size(replacer) = 5

\* the evict() of Scenario A has returned
C26_Witness ==
    /\ last.op = "Evict"
    /\ replacer.current_timestamp_ = Len(ScenarioA_Accesses)
    /\ replacer.replacer_size_ = 7
    /\ replacer.k_ = 2

(***************************************************************************)
(* Properties of the hash table                                            *)
(***************************************************************************)
\* the keys stored in the buckets the directory points to, with multiplicity
StoredCount(ht) ==
    LET RECURSIVE Sum(_)
        Sum(bs) == IF bs = {} THEN 0
                   ELSE LET b == CHOOSE x \in bs : TRUE
                        IN  Len(ht.buckets[b].list_) + Sum(bs \ {b})
    IN  Sum(Range(ht.dir_))

\* C27: after any sequence of insert and remove, find(k) returns the value of the
\* most recent insert(k, .) not followed by remove(k) and nothing otherwise; no key
\* is lost or changes value by a split or a doubling; remove(k) returns true exactly
\* when k was present.
C27_DirectoryIsMap ==
    [][/\ \A k \in HashKeys :
             LET r == HT_Find(table', k)
             IN  IF k \in DOMAIN model' THEN r.found /\ r.value = model'[k] ELSE ~r.found
       /\ last'.op = "Remove" => (last'.ret <=> last'.key \in DOMAIN model)
       /\ last'.op = "Find" =>
             /\ last'.ret <=> last'.key \in DOMAIN model
             /\ last'.ret => last'.value = model[last'.key]]_vars

\* an insert split buckets more than once and the table holds four keys
C27_Witness ==
    /\ last.op = "Insert"
    /\ last.splits >= 2
    /\ Cardinality(DOMAIN model) >= 4
    /\ table.global_depth_ >= 2

\* C28: insert(k, v2) for a key already present overwrites its value and does not
\* split, also when the bucket of k is full: global depth, local depths, num_buckets
\* and the directory are unchanged and the number of stored keys stays the same.
C28_Upsert ==
    [][(last'.op = "Insert" /\ last'.key \in DOMAIN model) =>
          /\ HT_Find(table', last'.key) = [found |-> TRUE, value |-> last'.value]
          /\ table'.global_depth_ = table.global_depth_
          /\ table'.num_buckets_ = table.num_buckets_
          /\ table'.dir_ = table.dir_
          /\ Len(table'.buckets) = Len(table.buckets)
          /\ \A b \in 1..Len(table.buckets) :
                /\ table'.buckets[b].depth_ = table.buckets[b].depth_
                /\ Len(table'.buckets[b].list_) = Len(table.buckets[b].list_)
          /\ StoredCount(table') = StoredCount(table)]_vars

\* a key in a full bucket was given another value
C28_Witness ==
    /\ last.op = "Insert"
    /\ last.present
    /\ last.full
    /\ table.num_buckets_ >= 2
    /\ \E k \in DOMAIN model : k # last.key /\ model[k] # last.value

\* one round of Insert that split: from table h to table g
SplitRound(h, g, key) ==
    LET bid == h.dir_[IndexOf(h, key) + 1]
        n == Len(h.dir_)
    IN  /\ g.num_buckets_ = h.num_buckets_ + 1
        /\ IF h.buckets[bid].depth_ = h.global_depth_
           THEN /\ g.global_depth_ = h.global_depth_ + 1
                /\ Len(g.dir_) = 2 * n
                /\ n = Pow2(h.global_depth_)
                /\ \A i \in 1..n :
                      IF h.dir_[i] = bid
                      THEN g.dir_[i] # g.dir_[i + n]
                      ELSE g.dir_[i] = h.dir_[i] /\ g.dir_[i + n] = h.dir_[i]
           ELSE /\ h.buckets[bid].depth_ < h.global_depth_
                /\ g.global_depth_ = h.global_depth_
                /\ Len(g.dir_) = n

\* C29: during insert the directory doubles, global depth growing by exactly 1 and
\* each new slot i + 2^d pointing where slot i points, exactly when the local depth of
\* the overflowing bucket equals the global depth; a split of a bucket of smaller
\* local depth leaves directory length and global depth as they are; global depth and
\* num_buckets never decrease, and num_buckets grows by exactly 1 per split.
C29_DirectoryDoubling ==
    [][/\ table'.global_depth_ >= table.global_depth_
       /\ table'.num_buckets_ >= table.num_buckets_
       /\ last'.op # "Insert" =>
             /\ table'.global_depth_ = table.global_depth_
             /\ table'.num_buckets_ = table.num_buckets_
             /\ table'.dir_ = table.dir_
       /\ last'.op = "Insert" =>
             LET rounds == InsertRounds(table, last'.key, last'.value)
                 final == rounds[Len(rounds)]
             IN  /\ \A j \in 1..(Len(rounds) - 1) :
                       SplitRound(rounds[j], rounds[j + 1], last'.key)
                 /\ table'.num_buckets_ = table.num_buckets_ + Len(rounds) - 1
                 /\ table'.global_depth_ = final.global_depth_
                 /\ table'.dir_ = final.dir_
                 /\ Len(table'.dir_) = Pow2(table'.global_depth_)]_vars

\* an insert split a bucket whose local depth was below the global depth
C29_Witness ==
    /\ last.op = "Insert"
    /\ last.splits = 1
    /\ last.doubled = 0
    /\ table.global_depth_ = 2

(***************************************************************************)
(* Properties of the tree                                                  *)
(***************************************************************************)
\* C1: in insert-only behaviours (any order of keys, leaf and internal sizes >= 3, no
\* fetch or new page failing) every insert of a key not yet stored returns true, and
\* get_value of every stored key returns exactly the value stored for it, while
\* get_value of a key never inserted returns nothing.
C1_RoundTrip ==
    /\ ~tree.ub
    /\ last.op = "Insert" /\ ~last.stored => last.ret
    /\ last.op = "GetValue" =>
          /\ last.ret = last.stored
          /\ last.result = IF last.stored THEN <<model[last.key]>> ELSE <<>>
    /\ \A key \in Keys :
          LET r == Lookup(key)
          IN  IF key \in DOMAIN model
              THEN r.ret /\ r.result = <<model[key]>>
              ELSE ~r.ret /\ r.result = <<>>

\* the round trip after an internal page has split: the root is an internal page
\* whose children are internal pages
C1_Witness ==
    /\ last.op = "Insert" /\ last.ret
    /\ Cardinality(DOMAIN model) >= 4
    /\ tree.root_page_id_ # INVALID_PAGE_ID
    /\ ~IsLeafPage(Node(tree.root_page_id_))
    /\ ~IsLeafPage(Node(ValueAt(Node(tree.root_page_id_), 0)))

\* C10: insert of a key the tree already stores returns false and leaves the tree as
\* it was: the same root, the same pages with the same entries, no page allocated,
\* and get_value of the key still returns the old value.
C10_DuplicateKey ==
    [][last'.op = "Insert" /\ last'.stored =>
          /\ last'.ret = FALSE
          /\ tree' = tree
          /\ bpm'.next_page_id_ = bpm.next_page_id_
          /\ TreeImage(bpm', tree') = TreeImage(bpm, tree)
          /\ model' = model
          /\ LET r == GetValue(World(bpm', tree'), last'.key)
             IN  r.ret /\ r.result = <<model[last'.key]>>]_vars

\* a duplicate insert into a tree of several pages
C10_Witness ==
    /\ last.op = "Insert" /\ last.stored
    /\ Cardinality(TreePages) >= 3

\* C2: when insert or remove returns, every page of the tree that is in the pool has
\* pin count 0 (the header page stays pinned by the caller).
C2_PinDiscipline ==
    \A f \in Frames(bpm) :
        bpm.pages_[f].page_id_ \notin {INVALID_PAGE_ID, HEADER_PAGE_ID} =>
            bpm.pages_[f].pin_count_ = 0

\* C5: remove(k) followed by insert(k, v) makes insert return true and get_value(k)
\* return v.
C5_RemoveThenInsert ==
    [][(last.op = "Remove" /\ last'.op = "Insert" /\ last'.key = last.key /\ ~tree'.ub) =>
          /\ last'.ret
          /\ LET r == GetValue(World(bpm', tree'), last'.key)
             IN  ~r.w.ub => r.ret /\ r.result = <<last'.value>>]_vars

\* C6: with leaf_max_size = 3 and internal_max_size = 3, after inserting 1..10 in
\* ascending order and removing 1..9 in ascending order the root is a leaf that holds
\* only key 10, and every other page the tree allocated has been deleted from the pool.
C6_RootCollapse ==
    (/\ tree.leaf_max_size_ = 3
     /\ tree.internal_max_size_ = 3
     /\ ScenarioInserted = 10
     /\ ScenarioRemoved = 9) =>
        /\ ~tree.ub
        /\ tree.root_page_id_ # INVALID_PAGE_ID
        /\ IsLeafPage(Node(tree.root_page_id_))
        /\ IsRootPage(Node(tree.root_page_id_))
        /\ Node(tree.root_page_id_).size_ = 1
        /\ KeyAt(Node(tree.root_page_id_), 0) = 10
        /\ ResidentIds(bpm) \subseteq {HEADER_PAGE_ID, tree.root_page_id_}

\* C7: after every completed insert or remove all leaves are at the same depth, every
\* internal page but the root has at least ceil(internal_max_size / 2) and fewer than
\* internal_max_size children, and every leaf but the root has at least
\* ceil((leaf_max_size - 1) / 2) and fewer than leaf_max_size entries.
C7_BalanceOccupancy ==
    (~tree.ub /\ tree.root_page_id_ # INVALID_PAGE_ID) =>
        /\ Cardinality(LeafDepths(tree.root_page_id_, 0, MaxDepth)) = 1
        /\ \A p \in TreePages \ {tree.root_page_id_} :
              IF IsLeafPage(Node(p))
              THEN /\ Node(p).size_ >= tree.leaf_max_size_ \div 2
                   /\ Node(p).size_ < tree.leaf_max_size_
              ELSE /\ Node(p).size_ >= (tree.internal_max_size_ + 1) \div 2
                   /\ Node(p).size_ < tree.internal_max_size_

\* C8: after every completed insert or remove the keys of every leaf are strictly
\* ascending, and for every internal page and slot i >= 1 the keys below child i-1 are
\* below the separator of slot i and the keys below child i are not.
C8_SeparatorOrdering ==
    (~tree.ub /\ tree.root_page_id_ # INVALID_PAGE_ID) =>
        \A p \in TreePages :
            IF IsLeafPage(Node(p))
            THEN StrictlyAscending([j \in 1..Node(p).size_ |-> KeyAt(Node(p), j - 1)])
            ELSE \A i \in 1..(Node(p).size_ - 1) :
                    /\ \A k \in SubtreeKeys(ValueAt(Node(p), i - 1), MaxDepth) : k < KeyAt(Node(p), i)
                    /\ \A k \in SubtreeKeys(ValueAt(Node(p), i), MaxDepth) : k >= KeyAt(Node(p), i)

\* C9: after every completed insert or remove, following next_page_id_ from the
\* leftmost leaf visits every leaf of the tree exactly once, ends at INVALID_PAGE_ID,
\* and yields exactly the stored keys in strictly ascending order.
C9_LeafChain ==
    (~tree.ub /\ tree.root_page_id_ # INVALID_PAGE_ID) =>
        LET chain == LeafChain(LeftmostLeaf(tree.root_page_id_, MaxDepth), bpm.next_page_id_ + 1)
            keys == ChainKeys(chain, 1)
        IN  /\ chain[Len(chain)] = INVALID_PAGE_ID
            /\ NoRepeat(chain)
            /\ Range(chain) \ {INVALID_PAGE_ID} = {p \in TreePages : IsLeafPage(Node(p))}
            /\ StrictlyAscending(keys)
            /\ Range(keys) = DOMAIN model

\* the leaf chain from the leftmost leaf of tree t over pool b
ChainOf(b, t) ==
    LET RECURSIVE Left(_, _)
        Left(page_id, fuel) ==
            LET node == PageImage(b, page_id)
            IN  IF IsLeafPage(node) \/ fuel = 0 \/ node.size_ = 0 THEN page_id
                ELSE Left(ValueAt(node, 0), fuel - 1)
        RECURSIVE Chain(_, _)
        Chain(page_id, fuel) ==
            IF page_id = INVALID_PAGE_ID \/ fuel = 0 THEN <<page_id>>
            ELSE IF ~IsLeafPage(PageImage(b, page_id)) THEN <<page_id>>
            ELSE <<page_id>> \o Chain(PageImage(b, page_id).next_page_id_, fuel - 1)
    IN  Chain(Left(t.root_page_id_, MaxDepth), b.next_page_id_ + 1)

\* C11: when NewPage or FetchPage returned nullptr during an insert (in the split of a
\* leaf, the split of an internal page or the creation of a root), then after the insert
\* every key stored before the call is still found by get_value with its value, the
\* separators order the keys below them, and the leaf chain visits every leaf of the
\* tree once.
C11_AllocationFailure ==
    [][(last'.op = "Insert" /\ last'.nil) =>
          /\ ~tree'.ub
          /\ \A key \in DOMAIN model :
                LET r == GetValue(World(bpm', tree'), key)
                IN  r.ret /\ r.result = <<model[key]>>
          /\ C8_SeparatorOrdering'
          /\ LET chain == ChainOf(bpm', tree')
             IN  /\ chain[Len(chain)] = INVALID_PAGE_ID
                 /\ NoRepeat(chain)
                 /\ Range(chain) \ {INVALID_PAGE_ID} =
                        {p \in TreePagesOf(bpm', tree') : IsLeafPage(PageImage(bpm', p))}]_vars

(***************************************************************************)
(* Properties of the iterator                                              *)
(***************************************************************************)
\* the elements of a set of numbers in ascending order
RECURSIVE Sorted(_)
Sorted(S) ==
    IF S = {} THEN <<>>
    ELSE LET least == CHOOSE x \in S : \A y \in S : x <= y
         IN  <<least>> \o Sorted(S \ {least})

IterOps == {"Begin", "Deref", "Advance"}

\* C12: on any tree built by inserts and removes, a scan from begin() dereferences
\* successfully wherever the iterator differs from end(), and when the iterator equals
\* end() the scan has yielded every stored key exactly once, in ascending order; on an
\* empty tree begin() equals end().
C12_FullIteration ==
    (last.op \in IterOps /\ last.from = "Begin") =>
        /\ ~tree.ub
        /\ (last.op = "Deref" /\ ~Equals(iter, End)) => ~last.thrown
        /\ StrictlyAscending(last.yielded)
        /\ Equals(iter, End) => last.yielded = Sorted(DOMAIN model)
        /\ (last.op = "Begin" /\ DOMAIN model = {}) => Equals(iter, End)

\* C13: on a non-empty tree, the iterator begin(key) returns, for any key, dereferences
\* to the smallest stored key >= key when there is one, and equals end() when there is
\* none; it is never an iterator that differs from end() and cannot be dereferenced.
C13_RangeStart ==
    (last.op = "Begin" /\ last.from = "Begin_Key" /\ DOMAIN model # {}) =>
        LET ge == {k \in DOMAIN model : k >= last.key}
            r == Deref(World(bpm, tree), iter)
        IN  /\ ~tree.ub
            /\ IF ge = {} THEN Equals(iter, End)
               ELSE /\ ~r.thrown
                    /\ r.item = <<<<Sorted(ge)[1], model[Sorted(ge)[1]]>>>>
            /\ ~Equals(iter, End) => ~r.thrown

\* an iterator that has a leaf and whose index_ is not below the leaf's size
Exhausted(it) == it.leaf_ # NULL /\ it.index_ >= bpm.pages_[it.leaf_].data_.size_

\* C14: dereferencing end(), or an iterator whose index is not below its leaf's size,
\* throws and returns no entry; advancing an iterator equal to end() leaves it equal
\* to end().
C14_InvalidIterator ==
    [][/\ (last'.op = "Deref" /\ (Equals(iter, End) \/ Exhausted(iter))) =>
              /\ last'.thrown
              /\ last'.yielded = last.yielded
       /\ (last'.op = "Advance" /\ Equals(iter, End)) => Equals(iter', End)]_vars

\* an iterator standing past the entries of a leaf that has a next leaf was
\* dereferenced
C14_Witness ==
    /\ last.op = "Deref"
    /\ last.thrown
    /\ Exhausted(iter)
    /\ bpm.pages_[iter.leaf_].data_.size_ >= 1
    /\ bpm.pages_[iter.leaf_].data_.next_page_id_ # INVALID_PAGE_ID

\* C30: for a tree reached by inserts and removes and a stored key k, after
\* remove(k) get_value(k) returns empty and get_value(k') returns the same value as
\* before for every other key k' stored before the call, whether the underflowing
\* node merges with its left sibling, merges with its right sibling, or borrows.
C30_RemoveOnlyItsKey ==
    [][(last'.op = "Remove" /\ GetValue(World(bpm, tree), last'.key).ret) =>
          /\ ~tree'.ub
          /\ ~GetValue(World(bpm', tree'), last'.key).ret
          /\ \A key \in 1..MaxKey :
                LET before == GetValue(World(bpm, tree), key)
                    after == GetValue(World(bpm', tree'), key)
                IN  (key # last'.key /\ before.ret) =>
                        /\ ~after.w.ub
                        /\ after.ret
                        /\ after.result = before.result]_vars
\* a page id that was allocated and whose page is neither in the pool nor on disk
Deleted(page_id) ==
    /\ page_id \in 0..(bpm.next_page_id_ - 1)
    /\ ~Resident(bpm, page_id)
    /\ page_id \notin DOMAIN bpm.disk

\* the child pointers of an internal page
Children(node) == {ValueAt(node, i) : i \in 0..(node.size_ - 1)}

\* the internal pages of the tree
InternalPages == {p \in TreePages : ~Deleted(p) /\ ~IsLeafPage(Node(p))}

\* C31: when remove merges two sibling pages the parent's entry for the merged-away
\* right page is removed and that page is deleted, so after a remove no internal page
\* reachable from the root holds a child pointer to a deleted page, whether the
\* underflowing node is the right page or the left page (child 0) of the merge.
C31_CoalesceBookkeeping ==
    last.op = "Remove" =>
        \A p \in InternalPages : \A c \in Children(Node(p)) : ~Deleted(c)

\* C32: after any completed remove the root is not an internal page with exactly
\* one child: a root left with one child hands the root to that child and is deleted.
C32_RootCollapse ==
    (last.op = "Remove" /\ tree.root_page_id_ # INVALID_PAGE_ID) =>
        ~(/\ ~IsLeafPage(Node(tree.root_page_id_))
          /\ Node(tree.root_page_id_).size_ = 1)

\* C33: removing the only key of a tree whose root is a leaf sets root_page_id_ to
\* INVALID_PAGE_ID and takes the old root page out of the pool: it is no longer
\* resident and its frame is on the free list with pin count 0.
C33_EmptyTree ==
    [][(/\ last'.op = "Remove"
        /\ tree.root_page_id_ # INVALID_PAGE_ID
        /\ IsLeafPage(Node(tree.root_page_id_))
        /\ Node(tree.root_page_id_).size_ = 1
        /\ KeyAt(Node(tree.root_page_id_), 0) = last'.key) =>
          /\ tree'.root_page_id_ = INVALID_PAGE_ID
          /\ ~Resident(bpm', tree.root_page_id_)
          /\ \A f \in Frames(bpm') : bpm'.pages_[f].page_id_ # tree.root_page_id_
          /\ FrameOf(bpm, tree.root_page_id_) \in Range(bpm'.free_list_)
          /\ bpm'.pages_[FrameOf(bpm, tree.root_page_id_)].pin_count_ = 0]_vars

\* C35: after every completed insert or remove every child pointer c stored in an
\* internal page P reachable from the root leads to a page whose parent_page_id_ is
\* the page id of P, and the root page has parent INVALID_PAGE_ID.
C35_ParentPointers ==
    (last.op \in {"Insert", "Remove"} /\ ~tree.ub /\ tree.root_page_id_ # INVALID_PAGE_ID) =>
        /\ Node(tree.root_page_id_).parent_page_id_ = INVALID_PAGE_ID
        /\ \A p \in InternalPages :
              \A c \in Children(Node(p)) : Node(c).parent_page_id_ = p

(***************************************************************************)
(* Behaviours that reach a redistribution: the caller stores a run of      *)
(* consecutive keys in ascending or in descending order and then removes   *)
(* stored keys.  A leaf borrows from its sibling     *)
(* only when the leaf holds min size - 1 entries and the sibling more than *)
(* half a page plus one, so the leaves take at least six entries.          *)
(***************************************************************************)
BorrowLeafSizes == 6..MaxBorrowLeaf

BorrowKeys == 1..MaxBorrowKey

\* the leaf of the tree that holds key
LeafWith(key) ==
    The({p \in TreePages \cup {INVALID_PAGE_ID} :
            IF \E q \in TreePages : /\ IsLeafPage(Node(q))
                                    /\ \E i \in 0..(Node(q).size_ - 1) : KeyAt(Node(q), i) = key
            THEN /\ p # INVALID_PAGE_ID
                 /\ IsLeafPage(Node(p))
                 /\ \E i \in 0..(Node(p).size_ - 1) : KeyAt(Node(p), i) = key
            ELSE p = INVALID_PAGE_ID})

\* the position of child in the internal page parent
IndexIn(parent, child) ==
    The({i \in 0..(parent.size_ - 1) : ValueAt(parent, i) = child})

\* the sibling remove turns to: the previous child of the parent when there is one
SiblingOf(leaf) ==
    LET parent == Node(Node(leaf).parent_page_id_)
        index == IndexIn(parent, leaf)
    IN  IF index > 0 THEN ValueAt(parent, index - 1) ELSE ValueAt(parent, index + 1)

\* remove(key) makes the leaf of key underflow and the leaf borrows from its sibling
Borrows(key) ==
    /\ tree.root_page_id_ # INVALID_PAGE_ID
    /\ LeafWith(key) # INVALID_PAGE_ID
    /\ ~IsRootPage(Node(LeafWith(key)))
    /\ Node(LeafWith(key)).size_ - 1 < GetMinSize(Node(LeafWith(key)))
    /\ Node(LeafWith(key)).parent_page_id_ \in TreePages
    /\ Node(Node(LeafWith(key)).parent_page_id_).size_ >= 2
    /\ LeafWith(key) \in Children(Node(Node(LeafWith(key)).parent_page_id_))
    /\ Node(LeafWith(key)).size_ - 1 + Node(SiblingOf(LeafWith(key))).size_ > tree.leaf_max_size_

\* the side remove(key) borrows from, "no" when it does not redistribute
BorrowSide(key) ==
    IF ~Borrows(key) THEN "no"
    ELSE IF IndexIn(Node(Node(LeafWith(key)).parent_page_id_), LeafWith(key)) > 0 THEN "left"
    ELSE "right"

InitBorrow ==
    /\ bpm = NewPgImp(BPM_New(TreePoolSize, ReplacerK)).b
    /\ \E l \in BorrowLeafSizes :
          tree = [root_page_id_ |-> INVALID_PAGE_ID, leaf_max_size_ |-> l,
                  internal_max_size_ |-> MaxInternalSize, ub |-> FALSE]
    /\ last = [op |-> "init", n |-> 0]
    /\ model = EmptyMap
    /\ iter = NoIterator
    /\ replacer = NoReplacer
    /\ table = NoTable
    /\ threads = NoThreads

\* the keys that continue the run: next to the key inserted last
Extending ==
    IF DOMAIN model = {} THEN BorrowKeys
    ELSE {k \in BorrowKeys \ DOMAIN model : k = last.key + 1 \/ k = last.key - 1}

BorrowInsert ==
    /\ ~tree.ub
    /\ last.op # "Remove"
    /\ \E key \in Extending : DoInsert(key)

BorrowRemove ==
    /\ ~tree.ub
    \* inserts + removes = last.n and inserts - removes = the number of stored keys
    /\ last.n - Cardinality(DOMAIN model) < 2 * MaxBorrowRemoves
    /\ \E key \in DOMAIN model :
          \E w \in {Remove(World(bpm, tree), key)} :
              /\ bpm' = w.b
              /\ tree' = TreeOf(w)
              /\ last' = [op |-> "Remove", key |-> key, n |-> last.n + 1,
                          stored |-> TRUE, borrowed |-> BorrowSide(key)]
              /\ model' = MapDel(model, key)
              /\ UNCHANGED <<iter, replacer, table, threads>>

NextBorrow == BorrowInsert \/ BorrowRemove

SpecBorrow == InitBorrow /\ [][NextBorrow]_vars

Without(array, key) == SelectSeq(array, LAMBDA e : e[1] # key)

\* the (key, value) pairs get_value finds in the tree t of pool b
StoredPairs(b, t) ==
    {<<k, GetValue(World(b, t), k).result>> :
        k \in {key \in BorrowKeys : GetValue(World(b, t), key).ret}}

BorrowedFromLeft(key) ==
    LET leaf == LeafWith(key)
        sibling == SiblingOf(leaf)
        parent == Node(leaf).parent_page_id_
        index == IndexIn(Node(parent), leaf)
        moved == Node(sibling).array_[Node(sibling).size_]
    IN  /\ PageImage(bpm', sibling).array_ = SubSeq(Node(sibling).array_, 1, Node(sibling).size_ - 1)
        /\ PageImage(bpm', leaf).array_ = <<moved>> \o Without(Node(leaf).array_, key)
        /\ PageImage(bpm', parent).array_ =
              [Node(parent).array_ EXCEPT ![index + 1] = <<moved[1], leaf>>]

BorrowedFromRight(key) ==
    LET leaf == LeafWith(key)
        sibling == SiblingOf(leaf)
        parent == Node(leaf).parent_page_id_
        index == IndexIn(Node(parent), leaf)
        moved == Node(sibling).array_[1]
    IN  /\ PageImage(bpm', sibling).array_ = Tail(Node(sibling).array_)
        /\ PageImage(bpm', leaf).array_ = Without(Node(leaf).array_, key) \o <<moved>>
        /\ PageImage(bpm', parent).array_ =
              [Node(parent).array_ EXCEPT ![index + 2] = <<Node(sibling).array_[2][1], sibling>>]

\* C34: a remove that makes a non-root leaf underflow while size(leaf) + size(sibling) >
\* leaf_max_size moves exactly one entry from the sibling's near end into the leaf (the
\* last entry of a left sibling, the first entry of a right sibling), sets the parent's
\* separator between the two leaves to the first key of the right-hand leaf after the
\* move, deletes no page, and changes the stored (key, value) pairs only by the removed key
C34_Redistribution ==
    [][(last'.op = "Remove" /\ Borrows(last'.key)) =>
          /\ ~tree'.ub
          /\ IF IndexIn(Node(Node(LeafWith(last'.key)).parent_page_id_), LeafWith(last'.key)) > 0
             THEN BorrowedFromLeft(last'.key)
             ELSE BorrowedFromRight(last'.key)
          /\ tree'.root_page_id_ = tree.root_page_id_
          /\ TreePagesOf(bpm', tree') = TreePages
          /\ ResidentIds(bpm') = ResidentIds(bpm)
          /\ StoredPairs(bpm', tree') = {pr \in StoredPairs(bpm, tree) : pr[1] # last'.key}]_vars

\* a remove has borrowed the last entry of a left sibling
C34_Witness ==
    /\ last.op = "Remove"
    /\ last.borrowed = "left"

\* a remove has borrowed the first entry of a right sibling
C34_WitnessRight ==
    /\ last.op = "Remove"
    /\ last.borrowed = "right"

(***************************************************************************)
(* Structure of the hash directory                                         *)
(***************************************************************************)
\* the directory slots (from 0) that point to bucket bid
SlotsOf(ht, bid) == {i \in 0..(Len(ht.dir_) - 1) : ht.dir_[i + 1] = bid}

LowBits(n, depth) == n % Pow2(depth)

\* C36: after any sequence of insert and remove the directory has exactly
\* 2^global_depth slots; every bucket has local depth <= global depth and at most
\* bucket_size entries; exactly 2^(global_depth - local_depth) slots point to each
\* bucket, and their indices agree on their low local_depth bits; every key stored in a
\* bucket has a hash whose low local_depth bits are those of the slots pointing to the
\* bucket; and num_buckets is the number of distinct buckets the directory references
C36_DirectoryStructure ==
    /\ Len(table.dir_) = Pow2(table.global_depth_)
    /\ \A bid \in Range(table.dir_) :
          /\ table.buckets[bid].depth_ <= table.global_depth_
          /\ Len(table.buckets[bid].list_) <= table.bucket_size_
          /\ Cardinality(SlotsOf(table, bid))
                = Pow2(table.global_depth_ - table.buckets[bid].depth_)
          /\ \A i \in SlotsOf(table, bid) :
                /\ \A j \in SlotsOf(table, bid) :
                      LowBits(i, table.buckets[bid].depth_) = LowBits(j, table.buckets[bid].depth_)
                /\ \A e \in Range(table.buckets[bid].list_) :
                      LowBits(Hash(e[1]), table.buckets[bid].depth_)
                          = LowBits(i, table.buckets[bid].depth_)
    /\ table.num_buckets_ = Cardinality(Range(table.dir_))

\* inserts and a remove have left a directory of depth 2 or more in which a bucket that
\* holds a key is shared by several slots
C36_Witness ==
    /\ last.op = "Remove"
    /\ last.ret
    /\ table.global_depth_ >= 2
    /\ \E bid \in Range(table.dir_) :
          /\ table.buckets[bid].depth_ < table.global_depth_
          /\ table.buckets[bid].list_ # <<>>

(***************************************************************************)
(* Insert of the hash table, one round of its while loop per step.  The    *)
(* caller holds latch_ from entry to return, so no other call of the table *)
(* runs between two rounds.  last.pc is "loop" while the call is in the    *)
(* loop and "done" when it has returned; last.start is num_buckets_ at     *)
(* entry.  The thread in the loop keeps running: weak fairness on a round. *)
(***************************************************************************)
LoopKeys == 0..MaxLoopKey

InitLoop ==
    /\ \E size \in 1..BucketSize : table = HT_New(size)
    /\ threads = NoThreads
    /\ bpm = NoPool
    /\ tree = NoTree
    /\ last = [op |-> "init", n |-> 0, pc |-> "done"]
    /\ model = EmptyMap
    /\ iter = NoIterator
    /\ replacer = NoReplacer

Loop_Call ==
    /\ last.pc = "done"
    /\ last.n < MaxLoopCalls
    /\ \E k \in LoopKeys \ DOMAIN model :
          last' = [op |-> "Insert", n |-> last.n + 1, pc |-> "loop", key |-> k,
                   value |-> ValueFor(k, last.n + 1), start |-> table.num_buckets_]
    /\ UNCHANGED <<bpm, tree, model, iter, replacer, table, threads>>

Loop_Round ==
    /\ last.pc = "loop"
    /\ \E r \in {InsertRound(table, last.key, last.value)} :
          /\ table' = r.ht
          /\ last' = [last EXCEPT !.pc = IF r.done THEN "done" ELSE "loop"]
          /\ model' = IF r.done THEN MapPut(model, last.key, last.value) ELSE model
    /\ UNCHANGED <<bpm, tree, iter, replacer, threads>>

NextLoop == Loop_Call \/ Loop_Round

SpecLoop == InitLoop /\ [][NextLoop]_vars

FairLoop == SpecLoop /\ WF_vars(Loop_Round)

\* C37: with the identity hash over a bounded range of integers every insert(key,
\* value) returns after finitely many rounds of split and retry, also when the keys in
\* the target bucket share many low hash bits with the new key, and the key is then found
C37_InsertTerminates ==
    (last.pc = "loop") ~>
        (/\ last.pc = "done"
         /\ last.op = "Insert"
         /\ HT_Find(table, last.key).found
         /\ HT_Find(table, last.key).value = last.value)

\* an insert has returned after three or more splits of the target bucket
C37_Witness ==
    /\ last.op = "Insert"
    /\ last.pc = "done"
    /\ table.num_buckets_ - last.start >= 3

(***************************************************************************)
(* Threads calling the buffer pool concurrently.  Every public call of the *)
(* pool starts with std::scoped_lock lock(latch_) and holds latch_ until   *)
(* it returns; every call of LRUKReplacer and of ExtendibleHashTable takes *)
(* the latch of its own object on entry and releases it on return.         *)
(* threads.pc[t] is "idle" (t is outside the pool), "enter" (t has called  *)
(* the pool and waits for latch_), "in" (t holds latch_) or "inner" (t     *)
(* holds latch_ and is inside a call of the replacer or the page table).   *)
(* threads.todo[t] lists the calls of the replacer and the page table that *)
(* the call of t still makes, threads.owner[l] is the thread that holds    *)
(* latch l, 0 when it is free.  A waiting thread's call and arguments      *)
(* matter to nobody before it holds latch_, so they are drawn when latch_  *)
(* is acquired; the call takes effect on the pool when it returns.         *)
(***************************************************************************)
Threads == {1, 2}

Latches == {"latch_", "replacer_", "page_table_"}

PT(method) == [monitor |-> "page_table_", method |-> method]

RP(method) == [monitor |-> "replacer_", method |-> method]

BP(method) == [monitor |-> "latch_", method |-> method]

\* the calls made to get a frame: none when the free list has one, else Evict and, when
\* it found a victim, Remove of the victim's page from the page table
TakeFrameCalls(b) ==
    IF b.free_list_ # <<>> THEN <<>>
    ELSE IF ~LRUK_Evict(b.replacer_).ret THEN <<RP("Evict")>>
    ELSE <<RP("Evict"), PT("Remove")>>

RegisterCalls == <<PT("Insert"), RP("RecordAccess"), RP("SetEvictable")>>

\* FlushAllPgsImp written as a loop of FlushPgImp calls, each of which takes latch_
InnerCalls_Reentrant(b, call) ==
    IF call.op = "NewPage"
    THEN IF TakeFrame(b).ok THEN TakeFrameCalls(b) \o RegisterCalls ELSE TakeFrameCalls(b)
    ELSE IF call.op = "FetchPage"
    THEN IF Resident(b, call.page_id)
         THEN <<PT("Find"), RP("RecordAccess"), RP("SetEvictable")>>
         ELSE IF TakeFrame(b).ok THEN <<PT("Find")>> \o TakeFrameCalls(b) \o RegisterCalls
         ELSE <<PT("Find")>> \o TakeFrameCalls(b)
    ELSE IF call.op = "UnpinPage"
    THEN IF Resident(b, call.page_id) /\ b.pages_[FrameOf(b, call.page_id)].pin_count_ = 1
         THEN <<PT("Find"), RP("SetEvictable")>>
         ELSE <<PT("Find")>>
    ELSE IF call.op = "FlushPage" THEN <<PT("Find")>>
    ELSE IF call.op = "FlushAllPages"
    THEN [i \in 1..b.pool_size_ |-> BP("FlushPgImp")]
    ELSE IF Resident(b, call.page_id) /\ b.pages_[FrameOf(b, call.page_id)].pin_count_ <= 0
         THEN <<PT("Find"), PT("Remove"), RP("Remove")>>
         ELSE <<PT("Find")>>

\* the calls of the page table and the replacer that a public call of the pool makes
\* while it holds latch_, in the order of the code
InnerCalls(b, call) ==
    IF call.op = "NewPage"
    THEN IF TakeFrame(b).ok THEN TakeFrameCalls(b) \o RegisterCalls ELSE TakeFrameCalls(b)
    ELSE IF call.op = "FetchPage"
    THEN IF Resident(b, call.page_id)
         THEN <<PT("Find"), RP("RecordAccess"), RP("SetEvictable")>>
         ELSE IF TakeFrame(b).ok THEN <<PT("Find")>> \o TakeFrameCalls(b) \o RegisterCalls
         ELSE <<PT("Find")>> \o TakeFrameCalls(b)
    ELSE IF call.op = "UnpinPage"
    THEN IF Resident(b, call.page_id) /\ b.pages_[FrameOf(b, call.page_id)].pin_count_ = 1
         THEN <<PT("Find"), RP("SetEvictable")>>
         ELSE <<PT("Find")>>
    ELSE IF call.op = "FlushPage" THEN <<PT("Find")>>
    ELSE IF call.op = "FlushAllPages" THEN <<>>
    ELSE IF Resident(b, call.page_id) /\ b.pages_[FrameOf(b, call.page_id)].pin_count_ <= 0
         THEN <<PT("Find"), PT("Remove"), RP("Remove")>>
         ELSE <<PT("Find")>>

\* the public calls a thread can make on the pool b
PoolCalls(b) ==
    {[op |-> "NewPage"], [op |-> "FlushAllPages"]}
    \cup {[op |-> "FetchPage", page_id |-> p] : p \in 0..(b.next_page_id_ - 1)}
    \cup {[op |-> "UnpinPage", page_id |-> p, is_dirty |-> d] :
              p \in 0..b.next_page_id_, d \in BOOLEAN}
    \cup {[op |-> o, page_id |-> p] : o \in {"FlushPage", "DeletePage"}, p \in 0..b.next_page_id_}

\* the pool after the call
Returned(b, call) ==
    IF call.op = "NewPage" THEN NewPgImp(b).b
    ELSE IF call.op = "FetchPage" THEN FetchPgImp(b, call.page_id).b
    ELSE IF call.op = "UnpinPage" THEN UnpinPgImp(b, call.page_id, call.is_dirty).b
    ELSE IF call.op = "FlushPage" THEN FlushPgImp(b, call.page_id).b
    ELSE IF call.op = "FlushAllPages" THEN FlushAllPgsImp(b)
    ELSE DeletePgImp(b, call.page_id).b

\* a pool of one frame: the second page needs the frame of the first
InitLatch ==
    /\ bpm = BPM_New(1, ReplacerK)
    /\ tree = NoTree
    /\ last = [op |-> "init"]
    /\ model = EmptyMap
    /\ iter = NoIterator
    /\ replacer = NoReplacer
    /\ table = NoTable
    /\ threads = [pc |-> [t \in Threads |-> "idle"],
                  call |-> [t \in Threads |-> [op |-> "none"]],
                  todo |-> [t \in Threads |-> <<>>],
                  owner |-> [l \in Latches |-> 0]]

\* thread t calls the pool and reaches the scoped_lock
T_Call(t) ==
    /\ threads.pc[t] = "idle"
    /\ threads' = [threads EXCEPT !.pc[t] = "enter"]
    /\ UNCHANGED <<bpm, tree, last, model, iter, replacer, table>>

\* t gets latch_; a call is made as long as the accesses it records stay within MaxTime
T_Lock(t) ==
    /\ threads.pc[t] = "enter"
    /\ threads.owner["latch_"] = 0
    /\ \E call \in PoolCalls(bpm) :
          /\ Returned(bpm, call).replacer_.current_timestamp_ <= MaxTime
          /\ threads' = [threads EXCEPT !.pc[t] = "in", !.call[t] = call,
                                        !.todo[t] = InnerCalls(bpm, call),
                                        !.owner["latch_"] = t]
    /\ UNCHANGED <<bpm, tree, last, model, iter, replacer, table>>

\* t enters the next call of the replacer or the page table and gets that object's latch
T_InnerLock(t) ==
    /\ threads.pc[t] = "in"
    /\ threads.todo[t] # <<>>
    /\ threads.owner[Head(threads.todo[t]).monitor] = 0
    /\ threads' = [threads EXCEPT !.pc[t] = "inner",
                                  !.owner[Head(threads.todo[t]).monitor] = t]
    /\ UNCHANGED <<bpm, tree, last, model, iter, replacer, table>>

\* the call of the replacer or the page table returns and its scoped_lock is released
T_InnerUnlock(t) ==
    /\ threads.pc[t] = "inner"
    /\ threads' = [threads EXCEPT !.pc[t] = "in", !.todo[t] = Tail(@),
                                  !.owner[Head(threads.todo[t]).monitor] = 0]
    /\ UNCHANGED <<bpm, tree, last, model, iter, replacer, table>>

\* the call of the pool returns: its effect is in place and latch_ is released
T_Return(t) ==
    /\ threads.pc[t] = "in"
    /\ threads.todo[t] = <<>>
    /\ bpm' = Returned(bpm, threads.call[t])
    /\ threads' = [threads EXCEPT !.pc[t] = "idle", !.call[t] = [op |-> "none"],
                                  !.owner["latch_"] = 0]
    /\ UNCHANGED <<tree, last, model, iter, replacer, table>>

NextLatch ==
    \E t \in Threads :
        \/ T_Call(t)
        \/ T_Lock(t)
        \/ T_InnerLock(t)
        \/ T_InnerUnlock(t)
        \/ T_Return(t)

SpecLatch == InitLatch /\ [][NextLatch]_vars

\* fair scheduling: a thread that holds latch_ keeps running, and a thread that finds
\* latch_ free again and again gets it at some point
FairLatch ==
    /\ SpecLatch
    /\ \A t \in Threads :
          /\ SF_vars(T_Lock(t))
          /\ WF_vars(T_InnerLock(t) \/ T_InnerUnlock(t) \/ T_Return(t))

\* the latch thread t is about to take, "" when it is not at a lock
Wanted(t) ==
    IF threads.pc[t] = "enter" THEN "latch_"
    ELSE IF threads.pc[t] = "in" /\ threads.todo[t] # <<>> THEN Head(threads.todo[t]).monitor
    ELSE ""

\* t waits for a latch that u holds
WaitsFor(t, u) == Wanted(t) # "" /\ threads.owner[Wanted(t)] = u

\* the threads t waits for, directly or through other waiting threads
RECURSIVE WaitChain(_, _)
WaitChain(t, fuel) ==
    IF fuel = 0 THEN {}
    ELSE {u \in Threads : WaitsFor(t, u)}
         \cup UNION {WaitChain(u, fuel - 1) : u \in {v \in Threads : WaitsFor(t, v)}}

NoCyclicWait == \A t \in Threads : t \notin WaitChain(t, Cardinality(Threads))

\* C38: with several threads calling new_page, fetch_page, unpin_page, flush_page,
\* flush_all_pages and delete_page, no state is reached in which threads wait on each
\* other cyclically, and under fair scheduling every call eventually returns
C38_NoDeadlock ==
    /\ []NoCyclicWait
    /\ \A t \in Threads : (threads.pc[t] = "enter") ~> (threads.pc[t] = "idle")

\* a thread is inside a call of the replacer, holding latch_ and the replacer's latch,
\* while the other thread waits for latch_
C38_Witness ==
    \E t \in Threads, u \in Threads :
        /\ threads.pc[t] = "inner"
        /\ threads.owner["latch_"] = t
        /\ threads.owner["replacer_"] = t
        /\ threads.call[t].op = "NewPage"
        /\ threads.pc[u] = "enter"
        /\ WaitsFor(u, t)
====
